---- MODULE Spec2Model ----
(***************************************************************************)
(* Task lifecycle and delivery engine of the song bot.                     *)
(*                                                                         *)
(*   Spec         generation lifecycle of src/app/main.py:                 *)
(*                start_music_generation, _poll_task_and_notify            *)
(*   SpecDelayed  delayed-delivery store and boot recovery of              *)
(*                src/app/delayed/store.py and src/app/delayed/scheduler.py*)
(*                                                                         *)
(* Time is an integer clock `now` that starts at 1 (a unix timestamp is    *)
(* never 0, and the code treats 0 as "unset").                             *)
(***************************************************************************)
EXTENDS Integers, Sequences, FiniteSets, TLC

\* ------------------------------------------------------------------ bounds
MaxTime == 2        \* the clock runs 1..MaxTime
MaxTasks == 4       \* task ids the music backend hands out: 1..MaxTasks
MaxDelay == 1       \* largest autoping delay an inbound event carries
MaxBoots == 3       \* process restarts in one behaviour
\* Stand-in for FOXAI_MAX_POLLS / COMET_MAX_POLLS (both 36 in main.py:59,71),
\* scaled down so that poll-budget exhaustion is reached.
MAX_POLLS == 2
MaxLyrics == 2      \* distinct lyrics texts the LLM may return: 1..MaxLyrics
MaxTokenTime == 8   \* the clock of the token cache runs 1..MaxTokenTime
MaxExpiresIn == 5   \* largest expires_in the OAuth endpoint answers with
MaxTokens == 3      \* tokens the OAuth endpoint issues in one behaviour
\* Stand-in for the 30 seconds of main.py:359, scaled to the token clock.
REFRESH_MARGIN == 2

Users == {"u1"}
Threads == {"w1", "w2"}
Providers == {"comet"}
MusicProviders == {"comet", "foxai"}
TaskIds == 1..MaxTasks
FileIds == {1, 2}    \* task ids delayed_tracks.json may hold at the first boot
SchedIds == {2}      \* task ids handed to schedule_delayed_send
AllIds == TaskIds \cup FileIds \cup SchedIds
Lyrics == 1..MaxLyrics

VARIABLES
    now,                  \* time.time()
    \* ---- main.py
    USER_STATE,           \* main.py:86, per user session
    PENDING_TASKS,        \* main.py:87, task id -> task_info
    CURRENTLY_GENERATING, \* main.py:91, guard set under GENERATING_LOCK
    smg,                  \* non-forced start_music_generation calls in progress
    pollTimers,           \* armed threading.Timer(_poll_task_and_notify, task_id)
    retryTimers,          \* armed threading.Timer(30, start_music_generation, cuid)
    nextTask,             \* next task id the backend will hand out
    admin,                \* the latest /admin/force_send_ready request and how it ended
    \* ---- delayed/store.py, delayed/scheduler.py
    file,                 \* delayed_tracks.json
    DELAYED_TRACKS,       \* the dict object scheduler.py imported at line 6-11
    storeAliased,         \* store.DELAYED_TRACKS is still that same object
    latch,                \* _DELAYED_BOOT_RESTORE_DONE
    dtimers,              \* armed delayed-send timers
    sending,              \* _do_send callbacks between their pop and their send
    rt,                   \* restore_delayed_sends_once invocations in progress
    boots,                \* number of process starts so far
    tmp,                  \* delayed_tracks.json.tmp
    sv,                   \* the save_delayed_tracks call in progress
    \* ---- history (not program state)
    delivered,            \* task id -> number of _send_tracks_to_user calls for it
    origin,               \* registered task id -> how it came to be submitted
    lastPoll,             \* what the latest poll tick did
    bootIds,              \* ids delayed_tracks.json held at the first boot
    scheduled,            \* ids schedule_delayed_send has stored
    bodyRuns,             \* runs of restore_delayed_sends_on_boot since boot
    calls,                \* restore_delayed_sends_once since boot: "none" has returned,
                          \* some "returned", or one that began after that "skipped"
    killedAt,             \* the step of save_delayed_tracks the latest kill interrupted
    lastEvent,            \* what the latest inbound event was and what its handling did
    bothelp,              \* main.py:350-351, the cached BotHelp token, and the latest fetch
    send,                 \* the send_message_to_bothelp_via_cuid call in progress, or
                          \* how the latest one ended
    llm,                  \* a generate_song_pack call: its configuration, what the
                          \* backends answer, and what it returned
    pings                 \* main.py:338-340, the armed reminder timers, and what the
                          \* latest one to fire did

genVars == <<USER_STATE, PENDING_TASKS, CURRENTLY_GENERATING, smg, pollTimers,
             retryTimers, nextTask, origin, lastPoll>>
saveVars == <<tmp, sv, killedAt>>
delVars == <<file, DELAYED_TRACKS, storeAliased, latch, dtimers, sending, rt,
             boots, bootIds, scheduled, bodyRuns, calls, saveVars, admin, lastEvent, bothelp, send,
             llm, pings>>
vars == <<now, genVars, delVars, delivered>>

\* ------------------------------------------------------------------ helpers
\* Python's `x or y` on numbers: 0 (and None) are falsy.
Or(x, y) == IF x = 0 THEN y ELSE x

\* The key is left in the dict.
Pop_Kept(d, k) == d

\* dict.pop(key, None)
Pop(d, k) == [x \in (DOMAIN d) \ {k} |-> d[x]]

\* d[key] = value
Put(d, k, v) == [x \in (DOMAIN d) \cup {k} |-> IF x = k THEN v ELSE d[x]]

EmptyDict == [x \in {} |-> 0]

Bump(f, k) == [f EXCEPT ![k] = @ + 1]


\* ------------------------------------------------------------------ sessions
\* Texts are sequences of characters; " " stands for any whitespace.
Chars == {" ", "a", "b"}

\* str.strip()
RECURSIVE Strip(_)
Strip(s) ==
    IF s = << >> THEN s
    ELSE IF Head(s) = " " THEN Strip(Tail(s))
    ELSE IF s[Len(s)] = " " THEN Strip(SubSeq(s, 1, Len(s) - 1))
    ELSE s

\* main.py:66, 68, 76, 78
COMET_MODEL_VERSION == "chirp-crow"
MINI_COMET_MODEL_VERSION == "chirp-auk"
COMET_LLM_MODEL_PREMIUM == "gpt-5.1"
COMET_LLM_MODEL_MINI == "gpt-5-all"

\* The keyword arguments the three webhook routes hand to
\* _process_incoming_payload (lines 2055-2062, 2078-2090, 2106-2118); comet says
\* whether the process is configured for Comet (USE_COMET, USE_COMET_LLM and a
\* usable COMET_API_KEY). "none" stands for None.
Route(flow, comet) ==
    CASE flow = "main-basic" ->
           [flow_name |-> flow, use_comet_llm |-> FALSE, provider_music |-> "foxai",
            comet_mv |-> "none", comet_llm_model |-> "none"]
      [] flow = "premium-v2" ->
           [flow_name |-> flow, use_comet_llm |-> comet,
            provider_music |-> IF comet THEN "comet" ELSE "foxai",
            comet_mv |-> IF comet THEN COMET_MODEL_VERSION ELSE "none",
            comet_llm_model |-> COMET_LLM_MODEL_PREMIUM]
      [] OTHER ->
           [flow_name |-> "v1-mini", use_comet_llm |-> comet,
            provider_music |-> IF comet THEN "comet" ELSE "foxai",
            comet_mv |-> IF comet THEN MINI_COMET_MODEL_VERSION ELSE "none",
            comet_llm_model |-> COMET_LLM_MODEL_MINI]

Flows == {"main-basic", "premium-v2", "v1-mini"}
Routes == {Route(f, c) : f \in Flows, c \in BOOLEAN}

\* The routes of a process configured for Comet.
CometRoutes == {Route(f, TRUE) : f \in Flows}

\* The route of an event whose music provider is p, where the lifecycle does not
\* tell the routes apart: /v2 for comet, / for foxai.
RouteOf(p) == IF p = "comet" THEN Route("premium-v2", TRUE) ELSE Route("main-basic", FALSE)

\* The story text of an event whose text the lifecycle does not tell apart.
AStory == <<"a">>

\* A user without an entry in USER_STATE. In a session, lyrics says whether the
\* dict holds a lyrics text and text which one; suno_prompt, negative and
\* used_model hold the number of the pack they came with (0: absent);
\* autoping_message is never assigned anywhere in main.py.
NoSession ==
    [exists |-> FALSE, lyrics |-> FALSE, text |-> 0, provider |-> "comet",
     last_activity_ts |-> 0, autoping_delay_sec |-> 0, autorest |-> 0,
     story |-> << >>, suno_prompt |-> 0, negative |-> 0, used_model |-> 0,
     use_comet_llm |-> FALSE, comet_llm_model |-> "none", mv |-> "none",
     autoping_message |-> "none"]

\* comet_mv or COMET_MODEL_VERSION
MvOr(mv) == IF mv = "none" THEN COMET_MODEL_VERSION ELSE mv

\* The settings are left as they are.
Reaffirm_Skipped(st, r) == st

\* _process_incoming_payload, lines 1962-1969: the settings of the route are
\* written into the session of a user who has one.
Reaffirm(st, r) ==
    [st EXCEPT !.provider = r.provider_music,
               !.use_comet_llm = r.use_comet_llm,
               !.comet_llm_model = r.comet_llm_model,
               !.mv = IF r.provider_music = "comet" THEN MvOr(r.comet_mv) ELSE @]

\* _process_incoming_payload, lines 1950-1960: every inbound event records the
\* activity time, and the autoping delay when the event carries one.
TrackActivity(st, d, t) ==
    [st EXCEPT !.exists = TRUE,
               !.last_activity_ts = t,
               !.autoping_delay_sec = IF d > 0 THEN d ELSE @]

\* handle_new_story, lines 1663-1678: the session dict is replaced and holds the
\* lyrics text l of the pack; the activity time and the delay are copied over,
\* "_autorest" is not.
\* Nothing is stored.
NewSession_Dropped(st, story_text, r, l) == st

\* The session is built from scratch.
NewSession_Fresh(st, story_text, r, l) ==
    [NoSession EXCEPT !.exists = TRUE, !.story = story_text, !.lyrics = TRUE,
                      !.text = l, !.suno_prompt = l, !.negative = l, !.used_model = l,
                      !.provider = r.provider_music]

NewSession(st, story_text, r, l) ==
    [exists |-> TRUE, story |-> story_text,
     lyrics |-> TRUE, text |-> l, suno_prompt |-> l, negative |-> l, used_model |-> l,
     provider |-> r.provider_music,
     use_comet_llm |-> r.use_comet_llm,
     comet_llm_model |-> r.comet_llm_model,
     last_activity_ts |-> st.last_activity_ts,
     autoping_delay_sec |-> st.autoping_delay_sec,
     autoping_message |-> st.autoping_message,
     mv |-> IF r.provider_music = "comet" THEN MvOr(r.comet_mv) ELSE "none",
     autorest |-> 0]

NewStorySession(st, p, l) == NewSession(st, AStory, RouteOf(p), l)

\* handle_edit_story, lines 1734-1742: the fields an edit writes into the session
EditedSession(st, r, l) ==
    [Reaffirm(st, r) EXCEPT !.lyrics = TRUE, !.text = l, !.suno_prompt = l,
                            !.negative = l, !.used_model = l]

\* generate_song_pack, lines 680-697: the user prompt. With a previous lyrics
\* text and an edit text it asks for an update and quotes the story, the previous
\* lyrics and the edit; otherwise it asks for a first version and quotes the
\* story alone. prev is 0 and edit is "" for None and for the empty string.
NoPrompt == [mode |-> "none", story |-> << >>, prev_lyrics |-> 0, client_edit |-> ""]

FinalUserPrompt(story, prev, edit) ==
    IF prev # 0 /\ edit # ""
    THEN [mode |-> "update", story |-> story, prev_lyrics |-> prev, client_edit |-> edit]
    ELSE [mode |-> "first", story |-> story, prev_lyrics |-> 0, client_edit |-> ""]

\* st.get("lyrics", "") as generate_song_pack tests it
PrevLyrics(st) == IF st.lyrics THEN st.text ELSE 0

\* ------------------------------------------------------------------ registry
NewTask(u, p) == [cuid |-> u, poll_count |-> 0, provider |-> p, restarts |-> 0]

\* start_music_generation, lines 1505-1506: a registered task of this user
HasPendingTask(P, u) == \E id \in DOMAIN P : P[id].cuid = u

TasksOf(P, u) == {id \in DOMAIN P : P[id].cuid = u}

\* ------------------------------------------------------------------ polling
StatusResults ==
    {"ready_tracks", "ready_empty", "pending", "soft_error", "failed", "other_error"}

\* What the provider's status endpoint may answer to a check:
\*   read_timeout         requests.exceptions.ReadTimeout
\*   transport_exception  any other exception of requests.get
\*   http_5xx             a response whose status code is 5xx
\*   non_json             a 200 response whose body is no JSON
\*   tracks               a completed task with audio urls
\*   pending_status       a status of the client's pending list, no audio urls
\*   unknown_status       a status in none of the client's lists, without "fail"
\*                        or "error" in it, no audio urls
\*   failed_status        the status "failed", no audio urls
\*   complete_no_audio    a status of the complete list, no audio urls
ProviderReplies ==
    {"read_timeout", "transport_exception", "http_5xx", "non_json", "tracks",
     "pending_status", "unknown_status", "failed_status", "complete_no_audio"}

\* One reply for each branch of _poll_task_and_notify that a reply can lead to.
CoreReplies == {"tracks", "pending_status", "read_timeout", "failed_status", "http_5xx"}

StatusRes(ok, ready, tracks, error) ==
    [ok |-> ok, ready |-> ready, tracks |-> tracks, error |-> error]

\* comet_check_task, lines 1106-1269
CometCheckTask(reply) ==
    CASE reply = "read_timeout" -> StatusRes(FALSE, FALSE, FALSE, "timeout")
      [] reply = "transport_exception" -> StatusRes(FALSE, FALSE, FALSE, "check_exception")
      [] reply = "http_5xx" -> StatusRes(FALSE, FALSE, FALSE, "http_5xx")
      [] reply = "non_json" -> StatusRes(FALSE, FALSE, FALSE, "non_json_response")
      [] reply = "tracks" -> StatusRes(TRUE, TRUE, TRUE, "")
      [] reply = "pending_status" -> StatusRes(TRUE, FALSE, FALSE, "")
      [] reply = "unknown_status" -> StatusRes(TRUE, FALSE, FALSE, "")
      [] reply = "failed_status" -> StatusRes(FALSE, FALSE, FALSE, "failed_status_failed")
      [] OTHER -> StatusRes(FALSE, FALSE, FALSE, "unknown_status_complete")

\* foxaihub_check_task, lines 911-1008
FoxaihubCheckTask(reply) ==
    CASE reply = "read_timeout" -> StatusRes(FALSE, FALSE, FALSE, "timeout")
      [] reply = "transport_exception" -> StatusRes(FALSE, FALSE, FALSE, "check_exception")
      [] reply = "http_5xx" -> StatusRes(FALSE, FALSE, FALSE, "http_5xx")
      [] reply = "non_json" -> StatusRes(FALSE, FALSE, FALSE, "non_json_response")
      [] reply = "tracks" -> StatusRes(TRUE, TRUE, TRUE, "")
      [] reply = "pending_status" -> StatusRes(TRUE, FALSE, FALSE, "")
      [] reply = "unknown_status" -> StatusRes(FALSE, FALSE, FALSE, "unknown_status_other")
      [] reply = "failed_status" -> StatusRes(FALSE, FALSE, FALSE, "unknown_status_failed")
      [] OTHER -> StatusRes(FALSE, FALSE, FALSE, "completed_but_no_audio_urls")

\* _poll_task_and_notify, lines 1358-1361
CheckTask(provider, reply) ==
    IF provider = "foxai" THEN FoxaihubCheckTask(reply) ELSE CometCheckTask(reply)

\* _poll_task_and_notify, lines 1422-1424: the error strings that start with
\* "unknown_status_failed" or with "failed"
FailureErrors == {"failed_status_failed", "unknown_status_failed"}

\* _poll_task_and_notify, lines 1363, 1405, 1413-1414, 1422-1424, 1444: the branch
\* a status_res is handled in
PollClass(res) ==
    IF res.ok /\ res.ready THEN (IF res.tracks THEN "ready_tracks" ELSE "ready_empty")
    ELSE IF res.ok THEN "pending"
    ELSE IF res.error \in {"timeout", "check_exception"} THEN "soft_error"
    ELSE IF res.error \in FailureErrors THEN "failed"
    ELSE "other_error"

\* Ready tracks are never delivered in the tick.
DeliverNow_Never(st, t) == FALSE

\* _poll_task_and_notify, lines 1367-1377: deliver in this tick?
DeliverNow(st, t) ==
    LET delay == st.autoping_delay_sec
    IN  IF delay <= 0 THEN TRUE
        ELSE Or(st.last_activity_ts, t) + delay <= t

\* _poll_task_and_notify, lines 1374-1376
SendAt(st, t) == Or(st.last_activity_ts, t) + st.autoping_delay_sec

\* _poll_task_and_notify, lines 1338 and 1427: the restart budget test
MayRestart(info) == info.restarts < 2

\* The budget counts as spent one tick later.
BudgetSpent_Late(info) == info.poll_count > MAX_POLLS

\* _poll_task_and_notify, line 1337: the poll budget test, made before the
\* status endpoint is asked
BudgetSpent(info) == info.poll_count >= MAX_POLLS

\* _poll_task_and_notify, lines 1337-1451: which branch a tick takes
PollOutcome(info, st, status, t) ==
    IF BudgetSpent(info)
    THEN IF MayRestart(info) THEN "restart_timeout" ELSE "abandon_timeout"
    ELSE CASE status = "ready_tracks" ->
                  IF DeliverNow(st, t) THEN "ready_sent" ELSE "ready_deferred"
           [] status = "ready_empty" -> "ready_empty"
           [] status = "pending" -> "pending"
           [] status = "soft_error" -> "soft_error"
           [] status = "failed" ->
                  IF MayRestart(info) THEN "restart_failed" ELSE "abandon_failed"
           [] OTHER -> "error"

Restarts == {"restart_timeout", "restart_failed"}
Rearms == {"pending", "soft_error"}
Terminal ==
    {"ready_sent", "ready_deferred", "ready_empty", "restart_timeout",
     "restart_failed", "abandon_timeout", "abandon_failed", "error"}

\* The call at main.py:1385-1391 passes these keyword arguments ...
ScheduleCallKeywords == {"task_id", "cuid", "provider", "tracks", "send_at_ts"}

\* ... to scheduler.py:111-118, whose parameters (none has a default) are these.
ScheduleParams ==
    {"_send_tracks_to_user", "cuid", "provider", "task_id", "tracks", "send_at_ts"}

\* Python binds a call only if every parameter without a default gets an
\* argument; otherwise the call raises TypeError before the body runs.
ScheduleCallBinds == ScheduleParams \subseteq ScheduleCallKeywords


\* ------------------------------------------------------------------ delayed store
\* A send_at_ts that is not a number (a JSON string such as "abc").
NonNumeric == -1

\* A JSON value that is no object (a list, a string, a number) in an entry's place.
NonObject ==
    [obj |-> FALSE, cuid |-> "", provider |-> "", tracks |-> 0, send_at_ts |-> 0]

\* schedule_delayed_send, lines 138-143: the entry it stores
Entry(u, p, n, ts) ==
    [obj |-> TRUE, cuid |-> u, provider |-> p, tracks |-> n, send_at_ts |-> ts]

\* restore_delayed_sends_on_boot, lines 39-42: entry.get(...) raises on a
\* non-object, float(...) raises on a non-numeric string.
EntryRaises(e) == ~e.obj \/ e.send_at_ts = NonNumeric

\* restore_delayed_sends_on_boot, line 44
EntryInvalid(e) == e.cuid = "" \/ e.provider = "" \/ e.tracks = 0

\* restore_delayed_sends_on_boot, line 51, and schedule_delayed_send, line 129
PastDue(ts, t) == ts = 0 \/ ts <= t

MissingFile == [kind |-> "missing", data |-> EmptyDict]
CorruptFile == [kind |-> "corrupt", data |-> EmptyDict]
DictFile(d) == [kind |-> "dict", data |-> d]

\* What a reader of delayed_tracks.json finds in it.
FileEntries(f) == IF f.kind = "dict" THEN f.data ELSE EmptyDict

\* load_delayed_tracks, lines 20-37. On a dict root the imported dict object is
\* cleared and refilled in place. Otherwise the module global is REBOUND to a new
\* dict: the object scheduler.py imported stays as it was (empty, at boot) and is
\* no longer the one save_delayed_tracks dumps.
LoadAliased(f) == f.kind = "dict"

LoadDict(f) == IF f.kind = "dict" THEN f.data ELSE EmptyDict

\* save_delayed_tracks, lines 40-48: dumps store.DELAYED_TRACKS, which is the
\* scheduler's dict only while the two names are the same object, and is the
\* (never mutated, empty) rebound dict otherwise. os.replace makes it one step.
Save(D, aliased) == DictFile(IF aliased THEN D ELSE EmptyDict)

\* All orders of a finite set, as sequences: dict iteration order is the file's.
Orders(S) ==
    {q \in [1..Cardinality(S) -> S] : \A i, j \in 1..Cardinality(S) : q[i] = q[j] => i = j}

Max(a, b) == IF a >= b THEN a ELSE b

\* A delayed-send timer: threading.Timer(delta, _do_send), armed at time t.
\* boot tells restore_delayed_sends_on_boot's closure from schedule_delayed_send's.
Timer(id, delta, t, boot) == [id |-> id, at |-> t + delta, boot |-> boot]


\* ------------------------------------------------------------------ initial state
\* Until the call has tested the guard, busy says that it is the call of a retry
\* timer and that the guard was held when that timer fired.
Idle ==
    [pc |-> "idle", cuid |-> "", text |-> 0, attempts |-> 0, accepted |-> 0,
     error |-> "", busy |-> FALSE]

RIdle == [pc |-> "idle", items |-> << >>, i |-> 0, now |-> 0]

NoEvent ==
    [kind |-> "none", cuid |-> "", had |-> FALSE, form |-> << >>,
     route |-> Route("main-basic", FALSE), delay |-> 0,
     pack_calls |-> 0, prompt |-> NoPrompt, pack |-> 0]

\* No send_message_to_bothelp_via_cuid call has been made.
NoSend ==
    [pc |-> "idle", attempt |-> 0, posts |-> 0, refreshes |-> 0, status |-> "none",
     result |-> "none"]

NoFetch == [force |-> FALSE, contacted |-> FALSE, returned |-> 0, at |-> 0]

\* Python's None where a string is expected.
None == "None"

\* What generate_song_pack is called with and finds configured:
\*   use_comet_llm   its argument
\*   comet_key       COMET_API_KEY (main.py:62): "" unset, "key", or "non-ascii"
\*   openai_key      whether OPENAI_API_KEY (main.py:45) is set
\*   comet, responses, chat   what each backend's API would answer if asked
NoConfig ==
    [use_comet_llm |-> FALSE, comet_key |-> "", openai_key |-> FALSE,
     comet |-> "fail", responses |-> "fail", chat |-> "fail"]

\* No generate_song_pack call has returned.
NoPack == [ok |-> FALSE, error |-> "", raw |-> None, used_model |-> None, tried |-> << >>]

NoCall == [cfg |-> NoConfig, pack |-> NoPack, done |-> FALSE]

\* No reminder timer is armed and none has fired. on says whether the
\* specification follows the reminder timers: a reminder changes nothing in the
\* program but sends a notice, so only SpecPing follows them.
\* Of the latest reminder to fire: activity is the last_activity_ts it read,
\* events whether a request for its user came in after it was scheduled, and
\* tracked whether such a request came through _process_incoming_payload.
NoFire ==
    [cuid |-> "", scheduled_at |-> 0, activity |-> 0, sent |-> FALSE,
     events |-> FALSE, tracked |-> FALSE]

NoPings == [on |-> FALSE, timers |-> {}, last |-> NoFire]

\* main.py:350-351 at import: no token cached (token 0 is None). creds says
\* whether BOTHELP_CLIENT_ID and BOTHELP_CLIENT_SECRET are configured (lines
\* 50-51); issued counts the tokens the OAuth endpoint has handed out.
NoToken(creds) ==
    [token |-> 0, expire_at |-> 0, creds |-> creds, issued |-> 0, last |-> NoFetch]

NoPoll == [id |-> 0, outcome |-> "none", reply |-> "none"]

NoAdmin == [cuid |-> "", outcome |-> "none"]

\* No save_delayed_tracks call in progress.
SIdle == [pc |-> "idle", dict |-> EmptyDict, text |-> << >>]

\* No delayed_tracks.json.tmp on disk.
NoTmp == [exists |-> FALSE, text |-> << >>, complete |-> FALSE]

\* main.py:86-91 and the module-level state of a freshly started process
InitMemory ==
    /\ USER_STATE = [u \in Users |-> NoSession]
    /\ PENDING_TASKS = EmptyDict
    /\ CURRENTLY_GENERATING = {}
    /\ smg = [t \in Threads |-> Idle]
    /\ pollTimers = {}
    /\ retryTimers = {}
    /\ latch = FALSE
    /\ dtimers = {}
    /\ sending = {}
    /\ rt = [t \in Threads |-> RIdle]
    /\ bodyRuns = 0
    /\ calls = "none"
    /\ sv = SIdle
    /\ admin = NoAdmin

InitHistory ==
    /\ nextTask = 1
    /\ boots = 1
    /\ delivered = [id \in AllIds |-> 0]
    /\ origin = EmptyDict
    /\ lastPoll = NoPoll
    /\ scheduled = {}
    /\ tmp = NoTmp
    /\ killedAt = "none"
    /\ lastEvent = NoEvent
    /\ send = NoSend

\* scheduler.py:16: load_delayed_tracks() runs when the module is imported
Booted(f) ==
    /\ bootIds = DOMAIN FileEntries(f)
    /\ file = f
    /\ DELAYED_TRACKS = LoadDict(f)
    /\ storeAliased = LoadAliased(f)

\* A first deployment: no delayed_tracks.json yet.
Init ==
    /\ now = 1
    /\ InitMemory
    /\ InitHistory
    /\ bothelp = NoToken(TRUE)
    /\ llm = NoCall
    /\ pings = NoPings
    /\ Booted(MissingFile)

\* ------------------------------------------------------------------ inbound events
\* _process_incoming_payload CASE A, lines 1950-1987, with handle_new_story,
\* lines 1627-1685, when the LLM returns a pack.
Story(u, p, d, l) ==
    /\ USER_STATE' =
           [USER_STATE EXCEPT ![u] = NewStorySession(TrackActivity(@, d, now), p, l)]
    /\ UNCHANGED <<now, PENDING_TASKS, CURRENTLY_GENERATING, smg, pollTimers,
                   retryTimers, nextTask, origin, lastPoll, delVars, delivered>>

\* _process_incoming_payload, lines 1950-1960 and 1989-1994: an event without a
\* story from a user without state (or one whose story the LLM could not turn
\* into a pack, lines 1649-1656). The activity tracking has created the session
\* dict; the user is asked for a story.
NoStoryYet(u, d) ==
    /\ ~USER_STATE[u].exists
    /\ USER_STATE' = [USER_STATE EXCEPT ![u] = TrackActivity(@, d, now)]
    /\ UNCHANGED <<now, PENDING_TASKS, CURRENTLY_GENERATING, smg, pollTimers,
                   retryTimers, nextTask, origin, lastPoll, delVars, delivered>>

\* _process_incoming_payload CASE C, lines 2008-2027, with handle_edit_story,
\* lines 1687-1749, when the LLM returns a pack: the session keeps its story and
\* gets the lyrics text l of the new pack. Nothing looks at PENDING_TASKS.
EditStory(u, p, d, l) ==
    /\ USER_STATE[u].exists
    /\ USER_STATE' =
           [USER_STATE EXCEPT
               ![u] = EditedSession(Reaffirm(TrackActivity(@, d, now), RouteOf(p)),
                                    RouteOf(p), l)]
    /\ UNCHANGED <<now, PENDING_TASKS, CURRENTLY_GENERATING, smg, pollTimers,
                   retryTimers, nextTask, origin, lastPoll, delVars, delivered>>

\* start_music_generation(cuid), lines 1489-1520, entered without force: the scan
\* of PENDING_TASKS for a task of this user.
Entered(u, st) ==
    IF ~st.exists \/ HasPendingTask(PENDING_TASKS, u)
    THEN Idle
    ELSE [Idle EXCEPT !.pc = "guard", !.cuid = u]

EnterCall(t, u) == smg' = [smg EXCEPT ![t] = Entered(u, USER_STATE'[u])]

\* The texts an event carries in the form field its flow reads the story from
\* (lines 1817-1866 strip every field, lines 1886-1938 pick the field).
RawTexts == {<< >>, <<"a", " ">>, <<"b">>}

\* The texts an event carries in the compform field its flow reads the button
\* and the edit from (lines 1996-2015), stripped. GENERATE stands for the
\* button word of line 2004, "sadder" for an edit instruction.
ButtonTexts == {"", "generate", "sadder"}

\* str.upper() on those texts
Upper(b) == IF b = "generate" THEN "GENERATE" ELSE IF b = "sadder" THEN "SADDER" ELSE b

\* Every event with a story text counts as a new story.
IncomingNewStory_Always(has, story_text, st) == story_text # << >>

\* _process_incoming_payload, lines 1971-1974
IncomingNewStory(has, story_text, st) ==
    /\ story_text # << >>
    /\ ~has \/ Strip(story_text) # Strip(st.story)

\* _schedule_autoping_if_needed, lines 308-342, called at time t for user u whose
\* session is st: with a delay configured, a timer is armed that remembers t.
ScheduleAutoping(P, u, st, t) ==
    IF ~P.on \/ ~st.exists \/ st.autoping_delay_sec <= 0
    THEN P
    ELSE [P EXCEPT !.timers = @ \cup {[cuid |-> u, scheduled_at |-> t,
                                       at |-> t + st.autoping_delay_sec,
                                       events |-> FALSE, tracked |-> FALSE]}]

\* A request for user u has come in: the armed reminders of u have seen one
\* (tracked: through _process_incoming_payload).
Noted(P, u, tracked) ==
    [P EXCEPT !.timers = {IF p.cuid = u
                          THEN [p EXCEPT !.events = TRUE, !.tracked = @ \/ tracked]
                          ELSE p : p \in @}]

\* _process_incoming_payload, lines 1786-2041, for an event with a cuid, handled
\* by request thread t:
\*   r       the settings of the route the event came in on
\*   form    the raw story text, button the button or edit text, d the delay
\*           its Type field parses to
\*   l       the pack generate_song_pack returns if it is called (0: all LLMs
\*           failed)
Incoming(t, u, r, form, button, d, l) ==
    LET st0 == USER_STATE[u]
        has == st0.exists
        tracked == TrackActivity(st0, d, now)
        st == IF has THEN Reaffirm(tracked, r) ELSE tracked
        story_text == Strip(form)
        new == IncomingNewStory(has, story_text, st)
        generate == ~new /\ has /\ Upper(button) = "GENERATE"
        edit == ~new /\ has /\ ~generate /\ button # ""
        kind == IF new THEN "new_story"
                ELSE IF ~has THEN "no_story_yet"
                ELSE IF generate THEN "generate"
                ELSE IF edit THEN "edit"
                ELSE IF story_text # << >> THEN "repeat_story_no_changes"
                ELSE "no_changes"
        prompt == IF new THEN FinalUserPrompt(story_text, 0, "")
                  ELSE IF edit THEN FinalUserPrompt(st.story, PrevLyrics(st), button)
                  ELSE NoPrompt
    IN  /\ smg[t].pc = "idle"
        /\ USER_STATE' =
               [USER_STATE EXCEPT
                   ![u] = IF new /\ l # 0 THEN NewSession(st, story_text, r, l)
                          ELSE IF edit /\ l # 0 THEN EditedSession(st, r, l)
                          ELSE st]
        /\ IF generate THEN EnterCall(t, u) ELSE smg' = smg
        /\ lastEvent' =
               [kind |-> kind, cuid |-> u, had |-> has, form |-> form,
                route |-> r, delay |-> d,
                pack_calls |-> IF new \/ edit THEN 1 ELSE 0,
                prompt |-> prompt,
                pack |-> IF new \/ edit THEN l ELSE 0]
        /\ pings' = IF (new \/ edit) /\ l # 0
                     THEN ScheduleAutoping(Noted(pings, u, TRUE), u, USER_STATE'[u], now)
                     ELSE Noted(pings, u, TRUE)
        /\ UNCHANGED <<now, PENDING_TASKS, CURRENTLY_GENERATING, pollTimers,
                       retryTimers, nextTask, origin, lastPoll, file, DELAYED_TRACKS,
                       storeAliased, latch, dtimers, sending, rt, boots, bootIds,
                       scheduled, bodyRuns, calls, saveVars, admin, bothelp, send,
                       llm, delivered>>

\* _process_incoming_payload CASE B, lines 1950-1969 and 1996-2006: the
\* generate button of a user who has a session.
SMG_Begin(t, u, p, d) ==
    /\ smg[t].pc = "idle"
    /\ USER_STATE[u].exists
    /\ USER_STATE' =
           [USER_STATE EXCEPT ![u] = Reaffirm(TrackActivity(@, d, now), RouteOf(p))]
    /\ EnterCall(t, u)
    /\ UNCHANGED <<now, PENDING_TASKS, CURRENTLY_GENERATING, pollTimers,
                   retryTimers, nextTask, origin, lastPoll, delVars, delivered>>

\* The 30 s timer of lines 1589-1591 fires: start_music_generation(cuid), not forced.
SMG_RetryFire(t, u) ==
    /\ smg[t].pc = "idle"
    /\ u \in retryTimers
    /\ retryTimers' = retryTimers \ {u}
    /\ USER_STATE' = USER_STATE
    /\ LET c == Entered(u, USER_STATE[u])
       IN  smg' = [smg EXCEPT ![t] =
                      IF c.pc = "idle" THEN c
                      ELSE [c EXCEPT !.busy = u \in CURRENTLY_GENERATING]]
    /\ UNCHANGED <<now, PENDING_TASKS, CURRENTLY_GENERATING, pollTimers,
                   nextTask, origin, lastPoll, delVars, delivered>>

\* The guard is not released.
Release_Skipped(G, u) == G

\* A forced call releases the guard as well.
GuardAfter_Always(G, u, force) == G \ {u}

\* CURRENTLY_GENERATING.discard(cuid) under GENERATING_LOCK, lines 1540-1541 and
\* 1624-1625
Release(G, u) == G \ {u}

\* start_music_generation, lines 1538-1541 and 1622-1625: the guard set when a
\* call returns; only a call that is not forced discards its cuid.
GuardAfter(G, u, force) == IF force THEN G ELSE Release(G, u)

\* start_music_generation, lines 1522-1536: the guard under GENERATING_LOCK, then
\* the lyrics test. A call that finds no lyrics still holds the guard: it
\* discards it when it takes the lock again (SMG_NoLyrics).
SMG_Guard(t) ==
    /\ smg[t].pc = "guard"
    /\ LET u == smg[t].cuid
       IN  IF u \in CURRENTLY_GENERATING
           THEN /\ smg' = [smg EXCEPT ![t] = Idle]
                /\ UNCHANGED CURRENTLY_GENERATING
           ELSE IF ~USER_STATE[u].lyrics
           THEN /\ smg' = [smg EXCEPT ![t] = [Idle EXCEPT !.pc = "nolyrics", !.cuid = u]]
                /\ CURRENTLY_GENERATING' = CURRENTLY_GENERATING \cup {u}
           ELSE /\ smg' = [smg EXCEPT ![t] = [Idle EXCEPT !.pc = "submit",
                                                          !.cuid = u,
                                                          !.text = USER_STATE[u].text]]
                /\ CURRENTLY_GENERATING' = CURRENTLY_GENERATING \cup {u}
    /\ UNCHANGED <<now, USER_STATE, PENDING_TASKS, pollTimers, retryTimers,
                   nextTask, origin, lastPoll, delVars, delivered>>

\* start_music_generation, lines 1537-1546: without lyrics the call discards the
\* guard, sends the notice and returns no_lyrics.
SMG_NoLyrics(t) ==
    /\ smg[t].pc = "nolyrics"
    /\ CURRENTLY_GENERATING' = GuardAfter(CURRENTLY_GENERATING, smg[t].cuid, FALSE)
    /\ smg' = [smg EXCEPT ![t] = Idle]
    /\ UNCHANGED <<now, USER_STATE, PENDING_TASKS, pollTimers, retryTimers,
                   nextTask, origin, lastPoll, delVars, delivered>>

\* start_music_generation, lines 1569-1620: up to three submit attempts; on
\* success the task is registered (restarts 0) and its poll timer armed, otherwise
\* a retry timer is armed. The backend hands out a fresh task id.
\*   "ok"    a submission was accepted
\*   "fail"  all attempts returned ok = False
\*   "raise" an exception left the try block before anything was registered
\* What _try_generate_music does each time the loop calls it:
\*   ok      the provider accepts the submission
\*   fail    the provider refuses it or cannot be reached (ok False)
\*   no_key  the provider's API key is not configured (ok False, error no_key)
\*   raise   an exception leaves the try block
SubmitResults == {"ok", "fail", "raise"}
SubmitAnswers == SubmitResults \cup {"no_key"}

\* With the submissions that are accepted at the second or third attempt, after
\* refusals, and the one that is accepted at the first attempt and followed by an
\* exception of send_waiting_music_msg (line 1596), which sends through
\* send_message_to_bothelp_via_cuid.
SubmitOutcomes == SubmitAnswers \cup {"ok_second", "ok_third", "ok_then_raise"}

\* start_music_generation, line 1570
max_retries == 3

\* The attempt at which the backend accepts the submission (0: at none).
AcceptedAt(sub) ==
    CASE sub \in {"ok", "ok_then_raise"} -> 1
      [] sub = "ok_second" -> 2
      [] sub = "ok_third" -> 3
      [] OTHER -> 0

\* start_music_generation, lines 1572-1578: the number of the attempt the loop
\* ends at
RECURSIVE SubmitLoop(_, _)
SubmitLoop(sub, attempt) ==
    IF attempt = AcceptedAt(sub) \/ sub = "raise" \/ attempt = max_retries
    THEN attempt
    ELSE SubmitLoop(sub, attempt + 1)

\* start_music_generation, lines 1580-1592: the loop ended without an accepted
\* submission
LoopFailed(sub) == sub \in {"fail", "no_key"}

\* start_music_generation, lines 1594-1620: the call gets as far as the
\* registration of the task the backend accepted.
Registers(sub) == sub \in {"ok", "ok_second", "ok_third"}

\* The new task is registered as if it had been polled already.
Submitted_Polled(P, u, sub) ==
    IF Registers(sub)
    THEN Put(P, nextTask, [NewTask(u, USER_STATE[u].provider) EXCEPT !.poll_count = 1])
    ELSE P

\* start_music_generation, lines 1610-1615
Submitted(P, u, sub) ==
    IF Registers(sub) THEN Put(P, nextTask, NewTask(u, USER_STATE[u].provider)) ELSE P

\* start_music_generation, lines 1616-1618
ArmedAfter(T, sub) == IF Registers(sub) THEN T \cup {nextTask} ELSE T

SMG_Submit(t, sub) ==
    /\ smg[t].pc = "submit"
    /\ AcceptedAt(sub) # 0 => nextTask <= MaxTasks
    /\ LET u == smg[t].cuid
       IN  /\ PENDING_TASKS' = Submitted(PENDING_TASKS, u, sub)
           /\ pollTimers' = ArmedAfter(pollTimers, sub)
           /\ retryTimers' = IF LoopFailed(sub) THEN retryTimers \cup {u} ELSE retryTimers
           /\ nextTask' = IF AcceptedAt(sub) # 0 THEN nextTask + 1 ELSE nextTask
           /\ origin' = IF Registers(sub)
                        THEN Put(origin, nextTask,
                                 [forced |-> FALSE, chain |-> 0, admin |-> FALSE,
                                  text |-> smg[t].text])
                        ELSE origin
           /\ smg' = [smg EXCEPT ![t] = [@ EXCEPT !.pc = "finally",
                                                   !.attempts = SubmitLoop(sub, 1),
                                                   !.accepted = AcceptedAt(sub),
                                                   !.error = IF Registers(sub) THEN "" ELSE sub]]
    /\ UNCHANGED <<now, USER_STATE, CURRENTLY_GENERATING, lastPoll, delVars,
                   delivered>>

\* start_music_generation, lines 1622-1625: the finally block
SMG_Finally(t) ==
    /\ smg[t].pc = "finally"
    /\ CURRENTLY_GENERATING' = GuardAfter(CURRENTLY_GENERATING, smg[t].cuid, FALSE)
    /\ smg' = [smg EXCEPT ![t] = Idle]
    /\ UNCHANGED <<now, USER_STATE, PENDING_TASKS, pollTimers, retryTimers,
                   nextTask, origin, lastPoll, delVars, delivered>>


\* ------------------------------------------------------------------ schedule_delayed_send
\* schedule_delayed_send, lines 124-165, once the call is bound: nothing without
\* tracks; an immediate send when the target is unset or not in the future;
\* otherwise the entry is stored and saved under the lock and a timer is armed.
ScheduleBody(id, u, p, n, ts) ==
    IF n = 0
    THEN UNCHANGED <<delVars, delivered>>
    ELSE IF PastDue(ts, now)
    THEN /\ delivered' = Bump(delivered, id)
         /\ UNCHANGED delVars
    ELSE /\ DELAYED_TRACKS' = Put(DELAYED_TRACKS, id, Entry(u, p, n, ts))
         /\ file' = Save(DELAYED_TRACKS', storeAliased)
         /\ dtimers' = dtimers \cup {Timer(id, Max(0, ts - now), now, FALSE)}
         /\ scheduled' = scheduled \cup {id}
         /\ UNCHANGED <<storeAliased, latch, sending, rt, boots, bootIds, bodyRuns, calls,
                        saveVars, admin, lastEvent, bothelp, send, llm, pings,
                        delivered>>

\* ------------------------------------------------------------------ poll tick
\* _poll_task_and_notify, lines 1324-1451, the whole timer callback, the forced
\* start_music_generation(cuid, force=True) of a restart included (lines 1348 and
\* 1435, running lines 1489-1620 with the guard skipped).
\*   reply:  what the provider's status endpoint answers, if it is asked
\*   sub:    whether the resubmission of a restart was accepted
Poll(id, reply, sub) ==
    /\ id \in pollTimers
    /\ IF id \notin DOMAIN PENDING_TASKS
       THEN /\ pollTimers' = pollTimers \ {id}
            /\ lastPoll' = [id |-> id, outcome |-> "gone", reply |-> "none"]
            /\ UNCHANGED <<USER_STATE, PENDING_TASKS, CURRENTLY_GENERATING, retryTimers,
                           nextTask, origin, delVars, delivered>>
       ELSE LET info == PENDING_TASKS[id]
                u == info.cuid
                st == USER_STATE[u]
                status == PollClass(CheckTask(info.provider, reply))
                out == PollOutcome(info, st, status, now)
                asked == ~BudgetSpent(info)
                resubmit == out \in Restarts /\ st.lyrics
                raised == out = "ready_deferred" /\ ~ScheduleCallBinds
                P1 == IF out \in Rearms
                      THEN [PENDING_TASKS EXCEPT ![id].poll_count = @ + 1]
                      ELSE IF raised THEN PENDING_TASKS
                      ELSE Pop(PENDING_TASKS, id)
            IN  /\ (resubmit /\ sub = "ok") => nextTask <= MaxTasks
                /\ ~resubmit => sub = "ok"
                /\ PENDING_TASKS' =
                       IF resubmit /\ sub = "ok"
                       THEN Put(P1, nextTask, NewTask(u, st.provider))
                       ELSE P1
                /\ pollTimers' =
                       (pollTimers \ {id})
                           \cup (IF out \in Rearms THEN {id} ELSE {})
                           \cup (IF resubmit /\ sub = "ok" THEN {nextTask} ELSE {})
                /\ retryTimers' =
                       IF resubmit /\ sub = "fail" THEN retryTimers \cup {u} ELSE retryTimers
                /\ nextTask' = IF resubmit /\ sub = "ok" THEN nextTask + 1 ELSE nextTask
                /\ origin' =
                       LET O1 == IF id \in DOMAIN P1 THEN origin ELSE Pop(origin, id)
                       IN  IF resubmit /\ sub = "ok"
                           THEN Put(O1, nextTask,
                                    [forced |-> TRUE, chain |-> origin[id].chain + 1,
                                     admin |-> FALSE, text |-> st.text])
                           ELSE O1
                /\ USER_STATE' =
                       IF out \in Restarts
                       THEN [USER_STATE EXCEPT ![u].autorest = @ + 1]
                       ELSE USER_STATE
                /\ lastPoll' = [id |-> id, outcome |-> out,
                                reply |-> IF asked THEN reply ELSE "none"]
                /\ CURRENTLY_GENERATING' =
                       IF out \in Restarts
                       THEN GuardAfter(CURRENTLY_GENERATING, u, TRUE)
                       ELSE CURRENTLY_GENERATING
                /\ IF out = "ready_deferred" /\ ScheduleCallBinds
                   THEN ScheduleBody(id, u, st.provider, 1, SendAt(st, now))
                   ELSE /\ UNCHANGED delVars
                        /\ delivered' =
                               IF out = "ready_sent" THEN Bump(delivered, id) ELSE delivered
    /\ UNCHANGED <<now, smg>>

\* admin_retry_music, lines 2205-2213: start_music_generation(cuid, force=True)
\* for a cuid that is in USER_STATE. With force the scan of PENDING_TASKS (lines
\* 1504-1520) and the guard (1522-1531) are skipped; without lyrics the call
\* returns (1538-1546); otherwise it submits (1569-1620) as every call does.
AdminRetryMusic(u, sub) ==
    /\ USER_STATE[u].exists
    /\ USER_STATE[u].lyrics
    /\ sub = "ok" => nextTask <= MaxTasks
    /\ PENDING_TASKS' = Submitted(PENDING_TASKS, u, sub)
    /\ pollTimers' = IF sub = "ok" THEN pollTimers \cup {nextTask} ELSE pollTimers
    /\ retryTimers' = IF sub = "ok" THEN retryTimers ELSE retryTimers \cup {u}
    /\ nextTask' = IF sub = "ok" THEN nextTask + 1 ELSE nextTask
    /\ origin' = IF sub = "ok"
                 THEN Put(origin, nextTask,
                          [forced |-> TRUE, chain |-> 0, admin |-> TRUE,
                           text |-> USER_STATE[u].text])
                 ELSE origin
    /\ CURRENTLY_GENERATING' = GuardAfter(CURRENTLY_GENERATING, u, TRUE)
    /\ UNCHANGED <<now, USER_STATE, smg, lastPoll, delVars, delivered>>

Tick ==
    /\ now < MaxTime
    /\ now' = now + 1
    /\ UNCHANGED <<genVars, delVars, delivered>>

Delays == {0, MaxDelay}

Next ==
    \/ \E u \in Users, d \in Delays : NoStoryYet(u, d)
    \/ \E u \in Users, p \in Providers, d \in Delays : Story(u, p, d, 1)
    \/ \E t \in Threads, u \in Users, p \in Providers, d \in Delays : SMG_Begin(t, u, p, d)
    \/ \E t \in Threads, u \in Users : SMG_RetryFire(t, u)
    \/ \E t \in Threads : SMG_Guard(t)
    \/ \E t \in Threads : SMG_NoLyrics(t)
    \/ \E t \in Threads, sub \in SubmitResults : SMG_Submit(t, sub)
    \/ \E t \in Threads : SMG_Finally(t)
    \/ \E id \in TaskIds, reply \in CoreReplies, sub \in {"ok", "fail"} :
           Poll(id, reply, sub)
    \/ Tick

Spec == Init /\ [][Next]_vars

\* A poll timer that is armed fires: threading.Timer runs its callback after the
\* interval (main.py:1407-1410, 1417-1419, 1619-1621).
PollFires(id) == \E reply \in CoreReplies, sub \in {"ok", "fail"} : Poll(id, reply, sub)

\* The lifecycle with the lyrics texts the LLM returns told apart (Next has every
\* story yield text 1), one generate call at a time.
NextLyrics ==
    \/ \E u \in Users, p \in Providers, l \in Lyrics : Story(u, p, 0, l)
    \/ \E u \in Users, p \in Providers, l \in Lyrics : EditStory(u, p, 0, l)
    \/ \E u \in Users, p \in Providers : SMG_Begin("w1", u, p, 0)
    \/ SMG_Guard("w1")
    \/ \E sub \in SubmitResults : SMG_Submit("w1", sub)
    \/ SMG_Finally("w1")
    \/ \E id \in TaskIds, reply \in CoreReplies, sub \in {"ok", "fail"} :
           Poll(id, reply, sub)

SpecLyrics == Init /\ [][NextLyrics]_vars

\* The lifecycle with both music providers and every reply of their status
\* endpoints, one generate call at a time.
NextPoll ==
    \/ \E u \in Users, p \in MusicProviders : Story(u, p, 0, 1)
    \/ \E u \in Users, p \in MusicProviders : SMG_Begin("w1", u, p, 0)
    \/ SMG_Guard("w1")
    \/ \E sub \in SubmitAnswers : SMG_Submit("w1", sub)
    \/ SMG_Finally("w1")
    \/ \E id \in TaskIds, reply \in ProviderReplies, sub \in {"ok", "fail"} :
           Poll(id, reply, sub)

SpecPoll == Init /\ [][NextPoll]_vars

\* The generate calls of one user with every way the submit loop may go.
NextSubmit ==
    \/ \E u \in Users, p \in MusicProviders, d \in Delays : Story(u, p, d, 1)
    \/ \E u \in Users, p \in MusicProviders : SMG_Begin("w1", u, p, 0)
    \/ \E u \in Users : SMG_RetryFire("w1", u)
    \/ SMG_Guard("w1")
    \/ \E sub \in SubmitOutcomes : SMG_Submit("w1", sub)
    \/ SMG_Finally("w1")
    \/ \E id \in TaskIds, reply \in CoreReplies, sub \in {"ok", "fail"} :
           Poll(id, reply, sub)

SpecSubmit == Init /\ [][NextSubmit]_vars

\* ------------------------------------------------------------------ BotHelp token
\* The cached token is handed out whatever its expiry time.
CacheUsable_NoMargin(b, force, t) == ~force /\ b.token # 0

\* _fetch_bothelp_token, lines 356-362 (the same test stands in
\* bothelp/client.py:115-120 and bothelp/auth.py:24-29)
CacheUsable(b, force, t) ==
    /\ ~force
    /\ b.token # 0
    /\ t < b.expire_at - REFRESH_MARGIN

\* What the OAuth endpoint answers: 0 (no 200 response, no access_token, or an
\* exception), or the expires_in of a new token.
OAuthReplies == 0..MaxExpiresIn

\* _fetch_bothelp_token(force), lines 353-398: the cache and the record of the
\* fetch after a call at time t
Fetched(b, force, reply, t) ==
    IF CacheUsable(b, force, t)
    THEN [b EXCEPT !.last = [force |-> force, contacted |-> FALSE,
                             returned |-> b.token, at |-> t]]
    ELSE IF ~b.creds
    THEN [b EXCEPT !.last = [force |-> force, contacted |-> FALSE,
                             returned |-> 0, at |-> t]]
    ELSE IF reply = 0
    THEN [b EXCEPT !.last = [force |-> force, contacted |-> TRUE,
                             returned |-> 0, at |-> t]]
    ELSE [b EXCEPT !.token = b.issued + 1,
                   !.expire_at = t + reply,
                   !.issued = @ + 1,
                   !.last = [force |-> force, contacted |-> TRUE,
                             returned |-> b.issued + 1, at |-> t]]

FetchBothelpToken(force, reply) ==
    /\ reply # 0 => bothelp.issued < MaxTokens
    /\ bothelp' = Fetched(bothelp, force, reply, now)
    /\ UNCHANGED <<now, genVars, file, DELAYED_TRACKS, storeAliased, latch, dtimers,
                   sending, rt, boots, bootIds, scheduled, bodyRuns, calls, saveVars,
                   admin, lastEvent, send, llm, pings, delivered>>

TokenTick ==
    /\ now < MaxTokenTime
    /\ now' = now + 1
    /\ UNCHANGED <<genVars, delVars, delivered>>

\* A process with or without BotHelp credentials.
InitToken ==
    /\ now = 1
    /\ InitMemory
    /\ InitHistory
    /\ Booted(MissingFile)
    /\ llm = NoCall
    /\ pings = NoPings
    /\ \E creds \in BOOLEAN : bothelp = NoToken(creds)

NextToken ==
    \/ \E force \in BOOLEAN, reply \in OAuthReplies : FetchBothelpToken(force, reply)
    \/ TokenTick

SpecToken == InitToken /\ [][NextToken]_vars

\* ------------------------------------------------------------------ BotHelp send
\* What the POST of a message may come back with:
\*   exception   requests.post raises a RequestException
\*   auth        a 401 or 403 response
\*   success     a 2xx response
\*   error_dict  another status, the body a JSON object
\*   error_text  another status, the body no JSON
\*   error_json  another status, the body JSON that is no object (a list, a
\*               string, null)
PostReplies == {"exception", "auth", "success", "error_dict", "error_text", "error_json"}

\* send_message_to_bothelp_via_cuid, line 439: range(1, 4)
SendAttempts == 3

\* send_message_to_bothelp_via_cuid, line 454
RefreshOn(status) == status = "auth"

\* send_message_to_bothelp_via_cuid, lines 461-469: a response that is neither
\* 401/403 nor 2xx. resp.json() of a body that is no JSON is caught (line 463);
\* body_json.get of a JSON value that is no object raises AttributeError, which
\* nothing in the function catches.
PostRaises(status) == status = "error_json"

\* The function's locals at the end of a failed attempt: the next attempt, or the
\* return of lines 472-475 after the last.
NextAttempt(sd, status) ==
    IF sd.attempt = SendAttempts
    THEN [sd EXCEPT !.pc = "idle", !.status = status, !.result = "failed"]
    ELSE [sd EXCEPT !.pc = "auth", !.status = status, !.attempt = @ + 1]

\* send_message_to_bothelp_via_cuid, lines 406-437: the call begins, and returns
\* at once without a cuid.
Send_Begin(cuid) ==
    /\ send.pc = "idle"
    /\ send' = IF cuid = ""
               THEN [NoSend EXCEPT !.result = "missing_cuid"]
               ELSE [NoSend EXCEPT !.pc = "auth", !.attempt = 1]
    /\ UNCHANGED <<now, genVars, file, DELAYED_TRACKS, storeAliased, latch, dtimers,
                   sending, rt, boots, bootIds, scheduled, bodyRuns, calls, saveVars,
                   admin, lastEvent, bothelp, llm, pings, delivered>>

\* send_message_to_bothelp_via_cuid, lines 440-442: the authorization header of
\* an attempt, from _fetch_bothelp_token() (lines 399-403)
Send_Auth(reply) ==
    /\ send.pc = "auth"
    /\ reply # 0 => bothelp.issued < MaxTokens
    /\ bothelp' = Fetched(bothelp, FALSE, reply, now)
    /\ send' = IF bothelp'.last.returned = 0
               THEN [send EXCEPT !.pc = "idle", !.result = "no_valid_bothelp_token"]
               ELSE [send EXCEPT !.pc = "post"]
    /\ UNCHANGED <<now, genVars, file, DELAYED_TRACKS, storeAliased, latch, dtimers,
                   sending, rt, boots, bootIds, scheduled, bodyRuns, calls, saveVars,
                   admin, lastEvent, llm, pings, delivered>>

\* send_message_to_bothelp_via_cuid, lines 444-470: the POST of an attempt and
\* what follows from its response; reply is what the OAuth endpoint answers to
\* the forced refresh of line 455.
Send_Post(status, reply) ==
    /\ send.pc = "post"
    /\ (RefreshOn(status) /\ reply # 0) => bothelp.issued < MaxTokens
    /\ ~RefreshOn(status) => reply = 0
    /\ bothelp' = IF RefreshOn(status) THEN Fetched(bothelp, TRUE, reply, now) ELSE bothelp
    /\ LET sd == [send EXCEPT !.posts = @ + 1,
                              !.refreshes = IF RefreshOn(status) THEN @ + 1 ELSE @]
       IN  send' =
               IF status = "success"
               THEN [sd EXCEPT !.pc = "idle", !.status = status, !.result = "ok"]
               ELSE IF PostRaises(status)
               THEN [sd EXCEPT !.pc = "idle", !.status = status, !.result = "raised"]
               ELSE NextAttempt(sd, status)
    /\ UNCHANGED <<now, genVars, file, DELAYED_TRACKS, storeAliased, latch, dtimers,
                   sending, rt, boots, bootIds, scheduled, bodyRuns, calls, saveVars,
                   admin, lastEvent, llm, pings, delivered>>

\* ------------------------------------------------------------------ LLM backends
\* What the API of a backend answers: "fail" stands for an exception, an HTTP
\* error or an answer without content, "blank" for content of white space only,
\* "text" for a song.
ApiAnswers == {"fail", "blank", "text"}

\* _is_ascii(COMET_API_KEY) and a non-empty key, main.py:703
CometKeyed(key) == key # "" /\ key # "non-ascii"

\* _call_comet_chat, lines 573-630: None without a usable key, on any failure
\* and for content that is empty after strip.
CallCometChat(key, answer) ==
    IF ~CometKeyed(key) \/ answer \in {"fail", "blank"} THEN None ELSE "comet text"

\* _call_model_responses, lines 519-543: None without a key or output_text, and
\* otherwise output_text.strip().
CallModelResponses(keyed, answer) ==
    IF ~keyed \/ answer = "fail" THEN None
    ELSE IF answer = "blank" THEN "" ELSE "responses text"

\* _call_model_chat, lines 545-571: None without a key or content, and otherwise
\* content.strip().
CallModelChat(keyed, answer) ==
    IF ~keyed \/ answer = "fail" THEN None
    ELSE IF answer = "blank" THEN "" ELSE "chat text"

\* The fallbacks run whatever the backend before them returned.
FallsBack_Always(raw_answer, keyed) == keyed

\* generate_song_pack, lines 708 and 714: whether the next OpenAI backend is asked
FallsBack(raw_answer, keyed) == raw_answer = None /\ keyed

\* generate_song_pack, lines 699-739. tried lists the backends called, in the
\* order of the calls.
GenerateSongPack(c) ==
    LET viaComet == c.use_comet_llm /\ CometKeyed(c.comet_key)
        raw1 == IF viaComet THEN CallCometChat(c.comet_key, c.comet) ELSE None
        used1 == IF viaComet THEN "comet" ELSE None
        tried1 == IF viaComet THEN <<"comet">> ELSE << >>
        second == FallsBack(raw1, c.openai_key)
        raw2 == IF second THEN CallModelResponses(c.openai_key, c.responses) ELSE raw1
        used2 == IF second THEN "PRIMARY_MODEL" ELSE used1
        tried2 == IF second THEN Append(tried1, "responses") ELSE tried1
        third == FallsBack(raw2, c.openai_key)
        raw3 == IF third THEN CallModelChat(c.openai_key, c.chat) ELSE raw2
        used3 == IF third THEN "FALLBACK_MODEL" ELSE used2
        tried3 == IF third THEN Append(tried2, "chat") ELSE tried2
    IN  IF raw3 = None
        THEN [ok |-> FALSE, error |-> "all_llm_failed", raw |-> None,
              used_model |-> None, tried |-> tried3]
        ELSE [ok |-> TRUE, error |-> "", raw |-> raw3, used_model |-> used3,
              tried |-> tried3]

Configs ==
    [use_comet_llm : BOOLEAN, comet_key : {"", "key", "non-ascii"},
     openai_key : BOOLEAN, comet : ApiAnswers, responses : ApiAnswers,
     chat : ApiAnswers]

\* One generate_song_pack call, from its first line to its return.
Pack ==
    /\ ~llm.done
    /\ llm' = [llm EXCEPT !.pack = GenerateSongPack(llm.cfg), !.done = TRUE]
    /\ UNCHANGED <<now, genVars, file, DELAYED_TRACKS, storeAliased, latch, dtimers,
                   sending, rt, boots, bootIds, scheduled, bodyRuns, calls, saveVars,
                   admin, lastEvent, bothelp, send, pings, delivered>>

\* A call under any configuration and with any answers of the backends.
InitPack ==
    /\ now = 1
    /\ InitMemory
    /\ InitHistory
    /\ Booted(MissingFile)
    /\ bothelp = NoToken(TRUE)
    /\ pings = NoPings
    /\ \E c \in Configs : llm = [NoCall EXCEPT !.cfg = c]

NextPack == Pack

SpecPack == InitPack /\ [][NextPack]_vars

\* ------------------------------------------------------------------ reminders
\* _do_autoping, lines 329-333: activity after the scheduling
Skips(last_activity, scheduled_at) ==
    last_activity # 0 /\ last_activity > scheduled_at

\* _do_autoping, lines 324-337: the timer p fires.
PingFire(p) ==
    /\ p \in pings.timers
    /\ p.at <= now
    /\ LET st2 == USER_STATE[p.cuid]
       IN  pings' = [pings EXCEPT
                        !.timers = @ \ {p},
                        !.last = [cuid |-> p.cuid, scheduled_at |-> p.scheduled_at,
                                  activity |-> st2.last_activity_ts,
                                  sent |-> st2.exists
                                           /\ ~Skips(st2.last_activity_ts, p.scheduled_at),
                                  events |-> p.events, tracked |-> p.tracked]]
    /\ UNCHANGED <<now, genVars, file, DELAYED_TRACKS, storeAliased, latch, dtimers,
                   sending, rt, boots, bootIds, scheduled, bodyRuns, calls, saveVars,
                   admin, lastEvent, bothelp, send, llm, delivered>>

\* The clock has moved on since the reminders of u were scheduled: time.time()
\* read by a later request is later.
ClockMoved(u) == \A p \in pings.timers : p.cuid = u => p.scheduled_at < now

\* An inbound event that arrives when the clock has moved on.
IncomingLater(t, u, r, form, button, d, l) ==
    /\ ClockMoved(u)
    /\ Incoming(t, u, r, form, button, d, l)

\* create_song, lines 2124-2162: the /song route hands a story to
\* handle_new_story (lines 1627-1685) without going through
\* _process_incoming_payload; l is the pack of generate_song_pack (0: failed).
Song(u, form, l) ==
    LET st0 == USER_STATE[u]
        st == IF st0.exists THEN st0 ELSE [st0 EXCEPT !.last_activity_ts = now]
        story == Strip(form)
        stored == story # << >> /\ l # 0
    IN  /\ story # << >>
        /\ ClockMoved(u)
        /\ USER_STATE' =
               [USER_STATE EXCEPT
                   ![u] = IF stored
                          THEN NewSession(st, story, Route("premium-v2", TRUE), l)
                          ELSE @]
        /\ pings' = IF stored
                     THEN ScheduleAutoping(Noted(pings, u, FALSE), u, USER_STATE'[u], now)
                     ELSE Noted(pings, u, FALSE)
        /\ UNCHANGED <<now, PENDING_TASKS, CURRENTLY_GENERATING, smg, pollTimers,
                       retryTimers, nextTask, origin, lastPoll, file, DELAYED_TRACKS,
                       storeAliased, latch, dtimers, sending, rt, boots, bootIds,
                       scheduled, bodyRuns, calls, saveVars, admin, lastEvent, bothelp,
                       send, llm, delivered>>

\* A process that follows its reminder timers.
InitPing ==
    /\ now = 1
    /\ InitMemory
    /\ InitHistory
    /\ Booted(MissingFile)
    /\ bothelp = NoToken(TRUE)
    /\ llm = NoCall
    /\ pings = [NoPings EXCEPT !.on = TRUE]

PingButtons == {"", "sadder"}

\* Every timer record _schedule_autoping_if_needed can arm.
PingTimers ==
    [cuid : Users, scheduled_at : 1..MaxTime, at : 1..(MaxTime + MaxDelay),
     events : BOOLEAN, tracked : BOOLEAN]

NextPing ==
    \/ \E u \in Users, r \in CometRoutes, form \in RawTexts, button \in PingButtons,
          d \in 0..MaxDelay, l \in 0..1 :
           IncomingLater("w1", u, r, form, button, d, l)
    \/ \E u \in Users, form \in RawTexts, l \in 0..1 : Song(u, form, l)
    \/ \E p \in PingTimers : PingFire(p)
    \/ Tick

SpecPing == InitPing /\ [][NextPing]_vars

NextSend ==
    \/ \E cuid \in Users \cup {""} : Send_Begin(cuid)
    \/ \E reply \in OAuthReplies : Send_Auth(reply)
    \/ \E status \in PostReplies, reply \in OAuthReplies : Send_Post(status, reply)
    \/ TokenTick

SpecSend == InitToken /\ [][NextSend]_vars

\* The inbound events of one user on every route, with the generate calls they
\* start and the clock.
NextInbound ==
    \/ \E u \in Users, r \in CometRoutes, form \in RawTexts, button \in ButtonTexts,
          d \in 0..MaxDelay, l \in 0..MaxLyrics :
           Incoming("w1", u, r, form, button, d, l)
    \/ SMG_Guard("w1")
    \/ SMG_NoLyrics("w1")
    \/ \E sub \in {"ok"} : SMG_Submit("w1", sub)
    \/ SMG_Finally("w1")
    \/ Tick

SpecInbound == Init /\ [][NextInbound]_vars

SpecLive == Init /\ [][Next]_vars /\ \A id \in TaskIds : WF_vars(PollFires(id))

\* The lifecycle of the tasks that the admin's forced regeneration submits.
NextForce ==
    \/ \E u \in Users, p \in Providers, d \in Delays : Story(u, p, d, 1)
    \/ \E u \in Users, sub \in {"ok", "fail"} : AdminRetryMusic(u, sub)
    \/ \E id \in TaskIds, reply \in CoreReplies, sub \in {"ok", "fail"} :
           Poll(id, reply, sub)

SpecForce == Init /\ [][NextForce]_vars


\* ==================================================================
\* Delayed-delivery store and boot recovery
\* ==================================================================
GenUnchanged ==
    UNCHANGED <<USER_STATE, PENDING_TASKS, CURRENTLY_GENERATING, smg, pollTimers,
                retryTimers, nextTask, origin, lastPoll, admin, lastEvent, bothelp, send,
                llm, pings>>

\* A step of the store outside save_delayed_tracks: no save is in progress and
\* the temporary file is left alone.
StoreStep == GenUnchanged /\ UNCHANGED saveVars

\* What delayed_tracks.json may hold when the process boots: entries a former
\* lifetime stored, and entries that are malformed.
FileEntryShapes ==
    { Entry("u1", "comet", 1, 0),            \* send_at_ts unset
      Entry("u1", "comet", 1, MaxTime),      \* in the future at boot
      Entry("u1", "comet", 0, 1),            \* no tracks
      Entry("u1", "comet", 1, NonNumeric),   \* send_at_ts is no number
      NonObject }

BootFiles ==
    {MissingFile, CorruptFile}
        \cup {DictFile(d) : d \in UNION {[S -> FileEntryShapes] : S \in SUBSET FileIds}}

InitDelayed ==
    /\ now = 1
    /\ InitMemory
    /\ InitHistory
    /\ bothelp = NoToken(TRUE)
    /\ llm = NoCall
    /\ pings = NoPings
    /\ \E f \in BootFiles : Booted(f)

\* The process is killed and started again: memory is lost, the file stays,
\* and the import of scheduler.py loads it (scheduler.py:16).
Restart ==
    /\ boots < MaxBoots
    /\ boots' = boots + 1
    /\ USER_STATE' = [u \in Users |-> NoSession]
    /\ PENDING_TASKS' = EmptyDict
    /\ CURRENTLY_GENERATING' = {}
    /\ smg' = [t \in Threads |-> Idle]
    /\ pollTimers' = {}
    /\ retryTimers' = {}
    /\ origin' = EmptyDict
    /\ lastPoll' = NoPoll
    /\ latch' = FALSE
    /\ dtimers' = {}
    /\ sending' = {}
    /\ rt' = [t \in Threads |-> RIdle]
    /\ bodyRuns' = 0
    /\ calls' = "none"
    /\ sv' = SIdle
    /\ admin' = NoAdmin
    /\ lastEvent' = lastEvent
    /\ bothelp' = bothelp
    /\ send' = NoSend
    /\ llm' = llm
    /\ pings' = [pings EXCEPT !.timers = {}]
    /\ killedAt' = IF sv.pc = "idle" THEN killedAt ELSE sv.pc
    /\ tmp' = tmp
    /\ file' = file
    /\ DELAYED_TRACKS' = LoadDict(file)
    /\ storeAliased' = LoadAliased(file)
    /\ UNCHANGED <<now, nextTask, bootIds, scheduled, delivered>>

\* schedule_delayed_send(_send_tracks_to_user, cuid, provider, task_id, tracks,
\* send_at_ts), lines 111-170, for a task id not seen before. Its caller is a poll
\* tick, so a request came first, and every request passes the latch of
\* restore_delayed_sends_once before it is handled (main.py:1757-1759).
ScheduleDelayedSend(id, u, p, n, ts) ==
    /\ latch
    /\ id \notin bootIds
    /\ id \notin scheduled
    /\ id \notin DOMAIN DELAYED_TRACKS
    /\ delivered[id] = 0
    /\ ScheduleBody(id, u, p, n, ts)
    /\ StoreStep
    /\ UNCHANGED now

\* _do_send, first half: scheduler.py:147-152 (schedule_delayed_send's timer) and
\* scheduler.py:73-84 (the boot timer): pop and save under the lock, then decide
\* whether there is something to send.
TimerPop(tm) ==
    /\ tm \in dtimers
    /\ tm.at <= now
    /\ dtimers' = dtimers \ {tm}
    /\ DELAYED_TRACKS' = Pop(DELAYED_TRACKS, tm.id)
    /\ file' = Save(DELAYED_TRACKS', storeAliased)
    /\ sending' =
           IF tm.id \notin DOMAIN DELAYED_TRACKS THEN sending
           ELSE IF tm.boot /\ DELAYED_TRACKS[tm.id].tracks = 0 THEN sending
           ELSE sending \cup {tm.id}
    /\ StoreStep
    /\ UNCHANGED <<now, storeAliased, latch, rt, boots, bootIds, scheduled, bodyRuns, calls,
                   delivered>>

\* _do_send, second half: scheduler.py:154-160 and scheduler.py:86-87, the call
\* of _send_tracks_to_user. Whether it completes or raises, the callback ends.
TimerSend(id) ==
    /\ id \in sending
    /\ sending' = sending \ {id}
    /\ delivered' = Bump(delivered, id)
    /\ StoreStep
    /\ UNCHANGED <<now, file, DELAYED_TRACKS, storeAliased, latch, dtimers, rt,
                   boots, bootIds, scheduled, bodyRuns, calls>>

\* The latch test left out: every invocation runs the recovery body.
LatchBlocks_Ignored(l) == FALSE

\* restore_delayed_sends_once, line 102: the latch test
LatchBlocks(l) == l

\* An invocation of restore_delayed_sends_once returns.
Returned(c) == IF c = "none" THEN "returned" ELSE c

\* restore_delayed_sends_once, lines 101-103: read the latch; return when set.
R_Begin(t) ==
    /\ rt[t].pc = "idle"
    /\ IF LatchBlocks(latch)
       THEN /\ rt' = rt
            /\ calls' = IF calls = "none" THEN "returned" ELSE "skipped"
       ELSE /\ rt' = [rt EXCEPT ![t].pc = "set"]
            /\ calls' = calls
    /\ StoreStep
    /\ UNCHANGED <<now, file, DELAYED_TRACKS, storeAliased, latch, dtimers, sending,
                   boots, bootIds, scheduled, bodyRuns, delivered>>

\* restore_delayed_sends_once, line 104: set the latch
R_Set(t) ==
    /\ rt[t].pc = "set"
    /\ latch' = TRUE
    /\ rt' = [rt EXCEPT ![t].pc = "body"]
    /\ StoreStep
    /\ UNCHANGED <<now, file, DELAYED_TRACKS, storeAliased, dtimers, sending,
                   boots, bootIds, scheduled, bodyRuns, calls, delivered>>

\* restore_delayed_sends_on_boot, lines 27-36: the snapshot of the store, in the
\* dict's order, and the time recovery compares against.
R_Snapshot(t, order) ==
    /\ rt[t].pc = "body"
    /\ order \in Orders(DOMAIN DELAYED_TRACKS)
    /\ bodyRuns' = bodyRuns + 1
    /\ rt' = [rt EXCEPT ![t] =
                 IF DOMAIN DELAYED_TRACKS = {}
                 THEN RIdle
                 ELSE [@ EXCEPT !.pc = "loop",
                                !.items = [k \in DOMAIN order |->
                                              <<order[k], DELAYED_TRACKS[order[k]]>>],
                                !.i = 1,
                                !.now = now]]
    /\ calls' = IF DOMAIN DELAYED_TRACKS = {} THEN Returned(calls) ELSE calls
    /\ StoreStep
    /\ UNCHANGED <<now, file, DELAYED_TRACKS, storeAliased, latch, dtimers, sending,
                   boots, bootIds, scheduled, delivered>>

\* The loop's next position: the next entry, or the return of line 94-97.
LastEntry(r) == r.i >= Len(r.items)

Advance(r) == IF LastEntry(r) THEN RIdle ELSE [r EXCEPT !.i = @ + 1]

\* restore_delayed_sends_on_boot, lines 38-92, one entry of the loop, up to the
\* send of a due entry:
\*   lines 39-42 raise on a malformed entry; the exception leaves the loop and is
\*     caught by restore_delayed_sends_once, lines 105-108;
\*   lines 44-49 drop an entry without cuid, provider or tracks;
\*   lines 51-60 send a due entry; an exception of the send is caught and logged,
\*     and the loop goes on to lines 61-64 as after a completed send;
\*   lines 66-92 arm a timer for an entry in the future.
R_Entry(t) ==
    /\ rt[t].pc = "loop"
    /\ LET r == rt[t]
           id == r.items[r.i][1]
           e == r.items[r.i][2]
       IN  IF EntryRaises(e)
           THEN /\ rt' = [rt EXCEPT ![t] = RIdle]
                /\ calls' = Returned(calls)
                /\ UNCHANGED <<file, DELAYED_TRACKS, dtimers, delivered>>
           ELSE IF EntryInvalid(e)
           THEN /\ DELAYED_TRACKS' = Pop(DELAYED_TRACKS, id)
                /\ file' = Save(DELAYED_TRACKS', storeAliased)
                /\ rt' = [rt EXCEPT ![t] = Advance(r)]
                /\ calls' = IF LastEntry(r) THEN Returned(calls) ELSE calls
                /\ UNCHANGED <<dtimers, delivered>>
           ELSE IF PastDue(e.send_at_ts, r.now)
           THEN /\ delivered' = Bump(delivered, id)
                /\ rt' = [rt EXCEPT ![t].pc = "sent"]
                /\ UNCHANGED <<file, DELAYED_TRACKS, dtimers, calls>>
           ELSE /\ dtimers' =
                       dtimers \cup {Timer(id, Max(0, e.send_at_ts - r.now), now, TRUE)}
                /\ rt' = [rt EXCEPT ![t] = Advance(r)]
                /\ calls' = IF LastEntry(r) THEN Returned(calls) ELSE calls
                /\ UNCHANGED <<file, DELAYED_TRACKS, delivered>>
    /\ StoreStep
    /\ UNCHANGED <<now, storeAliased, latch, sending, boots, bootIds, scheduled, bodyRuns>>

\* restore_delayed_sends_on_boot, lines 61-64: after the send, pop and save.
R_Pop(t) ==
    /\ rt[t].pc = "sent"
    /\ LET r == rt[t]
           id == r.items[r.i][1]
       IN  /\ DELAYED_TRACKS' = Pop(DELAYED_TRACKS, id)
           /\ file' = Save(DELAYED_TRACKS', storeAliased)
           /\ rt' = [rt EXCEPT ![t] = Advance([r EXCEPT !.pc = "loop"])]
           /\ calls' = IF LastEntry(r) THEN Returned(calls) ELSE calls
    /\ StoreStep
    /\ UNCHANGED <<now, storeAliased, latch, dtimers, sending, boots, bootIds,
                   scheduled, bodyRuns, delivered>>

\* main.py:98: the module-level assignment that follows the import of line 12
\* binds the name DELAYED_TRACKS, in main.py, to a new dict. Nothing in main.py
\* puts an entry into it (_load_delayed_tracks_from_disk, lines 101-119, is
\* never called), and it is not the dict schedule_delayed_send stores into.
MainDelayedTracks == EmptyDict

\* The names main.py defines for saving: _save_delayed_tracks_to_disk (line 121).
MainSaveNames == {"_save_delayed_tracks_to_disk"}

\* main.py:2242 calls _save_delayed_tracks(): a NameError unless that name is bound.
AdminSaveBinds == "_save_delayed_tracks" \in MainSaveNames

\* admin_force_send_ready, lines 2226-2254, for target cuid u: the entries of
\* main.py's DELAYED_TRACKS with that cuid are popped under the lock, the save is
\* called, and each popped entry is sent. The NameError of line 2242 leaves the
\* handler before the sends.
AdminForceSendReady(u) ==
    LET toSend == {id \in DOMAIN MainDelayedTracks : MainDelayedTracks[id].cuid = u}
    IN  /\ admin' = [cuid |-> u, outcome |-> IF AdminSaveBinds THEN "sent" ELSE "raised"]
        /\ delivered' = [id \in AllIds |->
                             IF AdminSaveBinds /\ id \in toSend
                             THEN delivered[id] + 1 ELSE delivered[id]]
        /\ UNCHANGED <<USER_STATE, PENDING_TASKS, CURRENTLY_GENERATING, smg, pollTimers,
                       retryTimers, nextTask, origin, lastPoll>>
        /\ UNCHANGED <<now, file, DELAYED_TRACKS, storeAliased, latch, dtimers, sending,
                       rt, boots, bootIds, scheduled, bodyRuns, calls, saveVars,
                       lastEvent, bothelp, send, llm, pings>>

NextDelayed ==
    \/ \E u \in Users : AdminForceSendReady(u)
    \/ \E id \in SchedIds, u \in Users, p \in Providers, ts \in 0..MaxTime :
           ScheduleDelayedSend(id, u, p, 1, ts)
    \/ \E tm \in dtimers : TimerPop(tm)
    \/ \E id \in AllIds : TimerSend(id)
    \/ \E t \in Threads : R_Begin(t)
    \/ \E t \in Threads : R_Set(t)
    \/ \E t \in Threads, order \in Orders(DOMAIN DELAYED_TRACKS) : R_Snapshot(t, order)
    \/ \E t \in Threads : R_Entry(t)
    \/ \E t \in Threads : R_Pop(t)
    \/ Restart
    \/ Tick

SpecDelayed == InitDelayed /\ [][NextDelayed]_vars


\* ==================================================================
\* save_delayed_tracks, step by step
\* ==================================================================
\* json.dump's output as the chunks it is written in: one per entry, in key
\* order; the closing brace is the chunk that completes the text.
Serialise(d) ==
    LET q == CHOOSE o \in Orders(DOMAIN d) : \A i, j \in DOMAIN o : i < j => o[i] < o[j]
    IN  [k \in DOMAIN q |-> <<q[k], d[q[k]]>>]

\* json.load of a complete text
Deserialise(text) ==
    [id \in {text[k][1] : k \in DOMAIN text} |->
        (CHOOSE pair \in {text[k] : k \in DOMAIN text} : pair[1] = id)[2]]

\* A file that ends in the middle of its JSON text.
TruncatedFile == [kind |-> "truncated", data |-> EmptyDict]

\* What a reader finds at a path holding the text written so far.
Parse(t) == IF t.complete THEN DictFile(Deserialise(t.text)) ELSE TruncatedFile

\* The writes go to the canonical path itself.
WhileWriting_InPlace(f, t) == Parse(t)

\* store.py:42-44: the writes go to DELAYED_TRACKS_PATH + ".tmp"; the canonical
\* file holds what it held.
WhileWriting(f, t) == f

\* A caller mutates the map under DELAYED_TRACKS_LOCK and calls
\* save_delayed_tracks (scheduler.py:46-48, 61-63, 73-75, 137-144, 147-149), which
\* dumps the dict the store module's global names (store.py:44).
SaveCall(id, op) ==
    /\ sv.pc = "idle"
    /\ DELAYED_TRACKS' = IF op = "put"
                         THEN Put(DELAYED_TRACKS, id, Entry("u1", "comet", 1, MaxTime))
                         ELSE Pop(DELAYED_TRACKS, id)
    /\ DELAYED_TRACKS' # DELAYED_TRACKS
    /\ LET D == FileEntries(Save(DELAYED_TRACKS', storeAliased))
       IN  sv' = [pc |-> "open", dict |-> D, text |-> Serialise(D)]
    /\ GenUnchanged
    /\ UNCHANGED <<now, file, storeAliased, latch, dtimers, sending, rt, boots, bootIds,
                   scheduled, bodyRuns, calls, tmp, killedAt, delivered>>

\* store.py:43: open(tmp_path, "w") creates or truncates the temporary file.
\* An OSError is caught at line 47 and the call returns.
SaveOpen(ok) ==
    /\ sv.pc = "open"
    /\ tmp' = IF ok THEN [exists |-> TRUE, text |-> << >>, complete |-> FALSE] ELSE tmp
    /\ file' = IF ok THEN WhileWriting(file, tmp') ELSE file
    /\ sv' = IF ok THEN [sv EXCEPT !.pc = "write"] ELSE SIdle
    /\ GenUnchanged
    /\ UNCHANGED <<now, DELAYED_TRACKS, storeAliased, latch, dtimers, sending, rt, boots,
                   bootIds, scheduled, bodyRuns, calls, killedAt, delivered>>

\* store.py:44: json.dump writes the next chunk; after the last entry the closing
\* brace completes the text and the with block closes the file. A failed write
\* (disk full) is caught at line 47 and the call returns.
SaveWrite(ok) ==
    /\ sv.pc = "write"
    /\ LET n == Len(tmp.text)
       IN  /\ tmp' = IF ~ok THEN tmp
                     ELSE IF n < Len(sv.text)
                     THEN [tmp EXCEPT !.text = Append(@, sv.text[n + 1])]
                     ELSE [tmp EXCEPT !.complete = TRUE]
           /\ sv' = IF ~ok THEN SIdle
                    ELSE IF n < Len(sv.text) THEN sv
                    ELSE [sv EXCEPT !.pc = "replace"]
    /\ file' = IF ok THEN WhileWriting(file, tmp') ELSE file
    /\ GenUnchanged
    /\ UNCHANGED <<now, DELAYED_TRACKS, storeAliased, latch, dtimers, sending, rt, boots,
                   bootIds, scheduled, bodyRuns, calls, killedAt, delivered>>

\* store.py:45: os.replace(tmp_path, DELAYED_TRACKS_PATH), one step of the file
\* system: the canonical name now holds the temporary file's text.
SaveReplace(ok) ==
    /\ sv.pc = "replace"
    /\ file' = IF ok THEN Parse(tmp) ELSE file
    /\ tmp' = IF ok THEN NoTmp ELSE tmp
    /\ sv' = SIdle
    /\ GenUnchanged
    /\ UNCHANGED <<now, DELAYED_TRACKS, storeAliased, latch, dtimers, sending, rt, boots,
                   bootIds, scheduled, bodyRuns, calls, killedAt, delivered>>

NextSave ==
    \/ \E id \in FileIds, op \in {"put", "pop"} : SaveCall(id, op)
    \/ \E ok \in BOOLEAN : SaveOpen(ok)
    \/ \E ok \in BOOLEAN : SaveWrite(ok)
    \/ \E ok \in BOOLEAN : SaveReplace(ok)
    \/ Restart

SpecSave == InitDelayed /\ [][NextSave]_vars


\* ==================================================================
\* Properties
\* ==================================================================

\* C1: at any time the registry holds at most one task per user that a
\* non-forced start_music_generation call registered.
C1_AtMostOneTask ==
    \A u \in Users :
        Cardinality({id \in TasksOf(PENDING_TASKS, u) : ~origin[id].forced}) <= 1

\* C2: within one logical generation (a user's generate trigger and the automatic
\* restarts that follow it) no task is the result of more than 2 automatic
\* resubmissions.
C2_RestartBudget == \A id \in DOMAIN origin : origin[id].chain <= 2

\* C3: after a poll tick that ended in a terminal outcome, its task id is not in
\* PENDING_TASKS.
C3_TerminalRemoves ==
    lastPoll.outcome \in Terminal => lastPoll.id \notin DOMAIN PENDING_TASKS

\* C4: a tick that finds the task ready with tracks at time R, for a user with
\* lastActivityAt = T and delay D > 0, delivers at once and stores no entry when
\* R >= T + D, and otherwise stores and persists an entry with send_at_ts = T + D
\* and arms a timer for it.
C4_DeliveryTiming ==
    [][(lastPoll' # lastPoll /\ lastPoll'.outcome \in {"ready_sent", "ready_deferred"})
        => LET id == lastPoll'.id
               st == USER_STATE[PENDING_TASKS[id].cuid]
               T == st.last_activity_ts
               D == st.autoping_delay_sec
               R == now
           IN  D > 0 =>
                   IF R >= T + D
                   THEN /\ delivered'[id] = delivered[id] + 1
                        /\ id \notin DOMAIN DELAYED_TRACKS'
                   ELSE /\ delivered'[id] = delivered[id]
                        /\ id \in DOMAIN DELAYED_TRACKS'
                        /\ DELAYED_TRACKS'[id].send_at_ts = T + D
                        /\ id \in DOMAIN FileEntries(file')
                        /\ \E tm \in dtimers' : tm.id = id /\ tm.at = T + D]_vars

\* C5: an entry schedule_delayed_send stored is handed to _send_tracks_to_user at
\* most once, and as long as it has not been, after a restart it is still in the
\* store (loaded from the file) or in the hands of a running timer callback.
C5_ExactlyOnce ==
    \A id \in scheduled :
        /\ delivered[id] <= 1
        /\ (boots > 1 /\ delivered[id] = 0) =>
               (id \in DOMAIN DELAYED_TRACKS \/ id \in sending)

\* C6: between critical sections the persisted record holds exactly the entries
\* of the in-memory map.
C6_FileMatchesStore == FileEntries(file) = DELAYED_TRACKS

\* C7: once an invocation of restore_delayed_sends_once has returned, a further
\* invocation in the same process lifetime returns at its latch test: it never
\* enters the recovery body, and its step leaves the store, the file, the timers
\* and the deliveries as they were.
C7_SecondInvocationNoOp ==
    [][(calls # "none" /\ boots' = boots)
        => /\ \A t \in Threads : rt[t].pc = "idle" => rt'[t].pc = "idle"
           /\ (calls = "returned" /\ calls' = "skipped")
                  => UNCHANGED <<DELAYED_TRACKS, file, dtimers, sending, delivered, latch>>]_vars

\* The recovery body has run and returned, a later invocation has been skipped,
\* and the store holds an entry that the recovery body would have acted on.
C7_Witness ==
    /\ calls = "skipped"
    /\ bodyRuns = 1
    /\ \A t \in Threads : rt[t].pc = "idle"
    /\ DOMAIN DELAYED_TRACKS # {}

\* C8: in one process lifetime restore_delayed_sends_on_boot runs at most once.
C8_BodyOnce == bodyRuns <= 1

WellFormed(e) == ~EntryRaises(e) /\ ~EntryInvalid(e)

\* A recovery run of thread t returns (restore_delayed_sends_once, line 106 or 108).
RunReturns(t) == rt[t].pc \in {"loop", "sent"} /\ rt'[t].pc = "idle" /\ boots' = boots

\* C9: when a recovery run returns, every well-formed entry of its snapshot that
\* was due has been handed to _send_tracks_to_user and is gone from the store and
\* the file, and every one in the future is still in the store with a boot timer
\* armed for it, unless that timer has fired already.
C9_RecoveryHandlesEveryEntry ==
    [][\A t \in Threads :
          RunReturns(t) =>
              \A k \in 1..Len(rt[t].items) :
                  LET id == rt[t].items[k][1]
                      e == rt[t].items[k][2]
                  IN  WellFormed(e) =>
                          IF PastDue(e.send_at_ts, rt[t].now)
                          THEN /\ delivered'[id] >= 1
                               /\ id \notin DOMAIN DELAYED_TRACKS'
                               /\ id \notin DOMAIN FileEntries(file')
                          ELSE \/ /\ id \in DOMAIN DELAYED_TRACKS'
                                  /\ \E tm \in dtimers' : tm.id = id /\ tm.boot
                               \/ id \in sending'
                               \/ delivered'[id] >= 1]_vars

\* C10: a recovery run returns only when its loop has reached the last entry of
\* its snapshot: a failure at one entry does not end the run before the others.
C10_RecoveryVisitsAll ==
    [][\A t \in Threads : RunReturns(t) => LastEntry(rt[t])]_vars

\* An entry the loader must drop: an object without cuid, provider or tracks.
Malformed(e) == e.obj /\ EntryInvalid(e)

\* C11: a boot with a missing or unusable delayed_tracks.json starts with an empty
\* store, and when a recovery run returns, every entry of its snapshot that lacks
\* cuid, provider or tracks is gone from the store and from the file, while every
\* well-formed entry that is not due is still in the store.
C11_LoadTolerant ==
    [][/\ (boots' # boots /\ file.kind # "dict") => DELAYED_TRACKS' = EmptyDict
       /\ \A t \in Threads :
              RunReturns(t) =>
                  \A k \in 1..Len(rt[t].items) :
                      LET id == rt[t].items[k][1]
                          e == rt[t].items[k][2]
                      IN  /\ Malformed(e) =>
                                 /\ id \notin DOMAIN DELAYED_TRACKS'
                                 /\ id \notin DOMAIN FileEntries(file')
                          /\ (WellFormed(e) /\ ~PastDue(e.send_at_ts, rt[t].now)) =>
                                 \/ id \in DOMAIN DELAYED_TRACKS'
                                 \/ id \in sending'
                                 \/ delivered'[id] >= 1]_vars

\* C12: no step of save_delayed_tracks, and no kill between two of its steps,
\* changes what the canonical file holds, except the replace, which puts the
\* complete new content there: a reader never finds a truncated record.
C12_AtomicSave ==
    [][/\ file' # file => (sv.pc = "replace" /\ file' = DictFile(sv.dict))
       /\ file'.kind # "truncated"]_vars

\* The process was killed while the text was being written, the temporary file
\* holds the first part of it, and the canonical file still holds its entries.
C12_Witness ==
    /\ killedAt = "write"
    /\ tmp.exists /\ ~tmp.complete /\ tmp.text # << >>
    /\ file.kind = "dict" /\ file.data # EmptyDict

\* C13: admin_force_send_ready for a user removes from the store and from the
\* file every entry of that user that schedule_delayed_send stored, and hands
\* each of them to _send_tracks_to_user once.
C13_ForceDeliver ==
    [][admin' # admin /\ admin'.outcome # "none" =>
          \A id \in scheduled \cap DOMAIN DELAYED_TRACKS :
              DELAYED_TRACKS[id].cuid = admin'.cuid =>
                  /\ id \notin DOMAIN DELAYED_TRACKS'
                  /\ id \notin DOMAIN FileEntries(file')
                  /\ delivered'[id] = delivered[id] + 1]_vars

\* C14: a task that a forced start_music_generation of admin_retry_music
\* registered is the only task of its user in the registry that is not younger
\* than it: the tasks registered before it have been removed.
C14_ForcedSupersedes ==
    \A id \in DOMAIN PENDING_TASKS :
        origin[id].admin =>
            \A j \in TasksOf(PENDING_TASKS, PENDING_TASKS[id].cuid) : j >= id

\* C15: a user is in CURRENTLY_GENERATING only while a non-forced
\* start_music_generation call for that user is between taking the guard and its
\* finally block: every call that has returned or raised has released it.
C15_GuardReleased ==
    \A u \in CURRENTLY_GENERATING :
        \E t \in Threads : smg[t].cuid = u /\ smg[t].pc \in {"nolyrics", "submit", "finally"}

\* A non-forced call took the guard, all its submissions failed (its retry timer
\* is armed and no task was ever registered), it has returned, and the guard
\* set is empty.
C15_Witness ==
    /\ retryTimers # {}
    /\ nextTask = 1
    /\ \A t \in Threads : smg[t].pc = "idle"
    /\ CURRENTLY_GENERATING = {}

\* C16: under fair firing of the poll timers, every task that is in
\* PENDING_TASKS is eventually not in it.
C16_EventuallyRemoved ==
    \A id \in TaskIds : (id \in DOMAIN PENDING_TASKS) ~> (id \notin DOMAIN PENDING_TASKS)

\* C17: a tick that finds an explicit failure for a task with restarts = 0
\* removes the task, and the task it registers in its place was submitted with
\* the lyrics text that had been submitted for the failed one.
C17_RestartSameLyrics ==
    [][(lastPoll' # lastPoll /\ lastPoll'.outcome = "restart_failed")
        => LET id == lastPoll'.id
           IN  /\ id \notin DOMAIN PENDING_TASKS'
               /\ nextTask' # nextTask =>
                      origin'[nextTask].text = origin[id].text]_vars

\* The replies that are transient provider errors.
TransientReplies == {"read_timeout", "transport_exception", "http_5xx"}

\* C18: a tick whose status check meets a transient provider error keeps the
\* task registered with its restarts unchanged and re-arms its poll timer.
C18_TransientKeepsTask ==
    [][(lastPoll' # lastPoll /\ lastPoll'.reply \in TransientReplies)
        => LET id == lastPoll'.id
           IN  /\ id \in DOMAIN PENDING_TASKS'
               /\ id \in pollTimers'
               /\ PENDING_TASKS'[id].restarts = PENDING_TASKS[id].restarts]_vars

\* C19: for either provider, a tick whose status check meets a status that the
\* client does not know and that carries no failure marker counts as pending:
\* poll_count goes up by one, the timer is re-armed, the task stays registered.
C19_UnknownStatusPending ==
    [][(lastPoll' # lastPoll /\ lastPoll'.reply = "unknown_status")
        => LET id == lastPoll'.id
           IN  /\ id \in DOMAIN PENDING_TASKS'
               /\ id \in pollTimers'
               /\ PENDING_TASKS'[id].poll_count = PENDING_TASKS[id].poll_count + 1]_vars

\* C20: a submission that fails with the configuration error no_key is not
\* retried: the call makes no submit attempt after the first and arms no retry
\* timer (the failure still goes back to the caller).
C20_NoKeyNotRetried ==
    [][\A t \in Threads :
          (smg[t].pc = "submit" /\ smg'[t].pc = "finally" /\ smg'[t].error = "no_key")
              => /\ smg'[t].attempts = 1
                 /\ retryTimers' = retryTimers]_vars

\* ------------------------------------------------------------------ inbound events
\* A step is the handling of an inbound event.
EventStep == lastEvent' # lastEvent

\* _process_incoming_payload, lines 1950-1969: the session of the event's user
\* when the classification is made and the handler of the event's case starts.
EventBefore ==
    LET e == lastEvent'
        tracked == TrackActivity(USER_STATE[e.cuid], e.delay, now)
    IN  IF e.had THEN Reaffirm(tracked, e.route) ELSE tracked

\* C21: for a user with a session whose stored story is S, an event whose story
\* text equals S after trimming is not handled as a new story, and an event
\* with any other non-empty story text is.
C21_NewStoryClassification ==
    [][(EventStep /\ lastEvent'.had)
        => LET e == lastEvent'
               S == USER_STATE[e.cuid].story
           IN  /\ Strip(e.form) = Strip(S) => e.kind # "new_story"
               /\ (Strip(e.form) # << >> /\ Strip(e.form) # Strip(S))
                      => e.kind = "new_story"]_vars

\* A repeated story that differs from the stored one only by whitespace.
C21_Witness ==
    /\ lastEvent.kind = "repeat_story_no_changes"
    /\ lastEvent.form = <<"a", " ">>
    /\ USER_STATE[lastEvent.cuid].story = <<"a">>

C27_NewStoryFrame ==
    [][(EventStep /\ lastEvent'.kind = "new_story" /\ lastEvent'.pack # 0)
        => LET e == lastEvent'
               b == EventBefore
               a == USER_STATE'[e.cuid]
           IN  /\ a.story = Strip(e.form)
               /\ a.lyrics /\ a.text = e.pack
               /\ a.suno_prompt = e.pack /\ a.negative = e.pack /\ a.used_model = e.pack
               /\ a.last_activity_ts = b.last_activity_ts
               /\ a.autoping_delay_sec = b.autoping_delay_sec
               /\ a.autoping_message = b.autoping_message]_vars

\* A second story, of an event without a delay, for a session that has one.
C27_Witness ==
    /\ lastEvent.kind = "new_story"
    /\ lastEvent.had
    /\ lastEvent.delay = 0
    /\ lastEvent.pack # 0
    /\ USER_STATE[lastEvent.cuid].autoping_delay_sec = MaxDelay
    /\ USER_STATE[lastEvent.cuid].story = <<"b">>

\* C28: an edit of an existing session gives the LLM the stored story, the
\* previous lyrics and the edit text, leaves story, activity time, autoping
\* delay and autoping message of the session as they were when handle_edit_story
\* started, and leaves the whole session so when the LLM fails.
C28_EditFrame ==
    [][(EventStep /\ lastEvent'.kind = "edit")
        => LET e == lastEvent'
               b == EventBefore
               a == USER_STATE'[e.cuid]
           IN  /\ e.prompt.mode = "update"
               /\ e.prompt.story = b.story
               /\ e.prompt.prev_lyrics = PrevLyrics(b)
               /\ e.prompt.client_edit # ""
               /\ a.story = b.story
               /\ a.last_activity_ts = b.last_activity_ts
               /\ a.autoping_delay_sec = b.autoping_delay_sec
               /\ a.autoping_message = b.autoping_message
               /\ e.pack = 0 => a = b]_vars

\* C29: after an inbound event of a user who had a session, the session's
\* provider, LLM flag and LLM model are those of the event's route, and with the
\* provider comet so is its model version.
C29_SettingsReaffirmed ==
    [][(EventStep /\ lastEvent'.had)
        => LET e == lastEvent'
               a == USER_STATE'[e.cuid]
           IN  /\ a.provider = e.route.provider_music
               /\ a.use_comet_llm = e.route.use_comet_llm
               /\ a.comet_llm_model = e.route.comet_llm_model
               /\ e.route.provider_music = "comet" => a.mv = MvOr(e.route.comet_mv)]_vars

\* An event that is neither story nor edit nor generate moves a session from
\* the premium route to the mini route.
C29_Witness ==
    /\ lastEvent.kind = "no_changes"
    /\ lastEvent.route = Route("v1-mini", TRUE)
    /\ USER_STATE[lastEvent.cuid].mv = MINI_COMET_MODEL_VERSION
    /\ USER_STATE[lastEvent.cuid].lyrics

C24_ImmediateDelivery ==
    [][(lastPoll' # lastPoll /\ lastPoll'.reply = "tracks")
        => LET id == lastPoll'.id
           IN  USER_STATE[PENDING_TASKS[id].cuid].autoping_delay_sec <= 0
                  => /\ delivered'[id] = delivered[id] + 1
                     /\ UNCHANGED <<DELAYED_TRACKS, file, dtimers, scheduled>>
                     /\ id \notin DOMAIN PENDING_TASKS']_vars

C24_Witness ==
    /\ lastPoll.reply = "tracks"
    /\ lastPoll.outcome = "ready_sent"
    /\ delivered[lastPoll.id] = 1
    /\ \A u \in Users : USER_STATE[u].exists /\ USER_STATE[u].autoping_delay_sec = 0
    /\ DELAYED_TRACKS = EmptyDict

\* No reply of either provider makes a tick take the branch of lines 1396-1401
\* (ready with an empty track list): comet_check_task reports ready only with
\* a non-empty tracks_info (line 1225), foxaihub_check_task only with tracks
\* (lines 967-972, 1002-1003).
ReadyEmptyNeverTaken == lastPoll.outcome # "ready_empty"

\* The boot recovery of this process lifetime has run and returned.
RecoveryCompleted == latch /\ \A t \in Threads : rt[t].pc = "idle"

\* C26: once boot recovery has completed, every entry of the delayed store has
\* an armed timer that will send it.
C26_EveryEntryHasTimer ==
    RecoveryCompleted =>
        \A id \in DOMAIN DELAYED_TRACKS : \E tm \in dtimers : tm.id = id

\* A step is a call of the token fetch.
FetchStep == bothelp'.last # bothelp.last

\* C30 as stated: the fetch hands out the cached token without contacting the
\* OAuth endpoint exactly when it is not forced, a token is cached and
\* now < expire_at - margin; in every other case it requests a new token.
C30_CacheOnlyWhenFresh ==
    [][FetchStep
        => LET fresh == CacheUsable(bothelp, bothelp'.last.force, now)
           IN  /\ fresh => /\ ~bothelp'.last.contacted
                           /\ bothelp'.last.returned = bothelp.token
               /\ ~fresh => bothelp'.last.contacted]_vars

\* C30, amended: as above, but in every other case nothing comes from the cache:
\* the fetch requests a new token when client id and secret are configured, and
\* returns no token without a request when they are not. A token within the
\* margin of its expiry is never handed out from the cache.
C30_CacheOnlyWhenFresh_Amended ==
    [][FetchStep
        => LET fresh == CacheUsable(bothelp, bothelp'.last.force, now)
               l == bothelp'.last
           IN  /\ fresh => /\ ~l.contacted
                           /\ l.returned = bothelp.token
                           /\ UNCHANGED <<bothelp.token, bothelp.expire_at>>
               /\ ~fresh => /\ l.contacted = bothelp.creds
                            /\ ~l.contacted => l.returned = 0
               /\ (~l.contacted /\ l.returned # 0)
                      => (~l.force /\ now < bothelp.expire_at - REFRESH_MARGIN)]_vars

\* A fetch refreshes a cached token that has not expired yet but is within the
\* margin of its expiry.
C30_Witness ==
    /\ bothelp.last.contacted
    /\ ~bothelp.last.force
    /\ bothelp.last.returned = 2
    /\ bothelp.issued = 2
    /\ bothelp.expire_at = now + 1

\* ------------------------------------------------------------------ BotHelp send
\* C31: a send_message_to_bothelp_via_cuid call makes at most 3 POST attempts;
\* a 401/403 response is followed by a forced token refresh before the next
\* attempt; the call returns ok=true at the first 2xx response and ok=false
\* when the third attempt has failed, and never raises to its caller.
C31_BoundedSend ==
    [][(send.pc = "post" /\ send' # send)
        => /\ send'.posts = send.posts + 1
           /\ send'.posts <= SendAttempts
           /\ send'.status = "auth" =>
                  (send'.refreshes = send.refreshes + 1 /\ bothelp'.last.force)
           /\ send'.status = "success" => (send'.pc = "idle" /\ send'.result = "ok")
           /\ send'.result = "ok" => send'.status = "success"
           /\ (send'.status # "success" /\ send.attempt = SendAttempts)
                  => (send'.pc = "idle" /\ send'.result = "failed")
           /\ send'.result # "raised"]_vars

\* The same without the replies whose handling raises.
SendBoundedOnObjects ==
    [][(send.pc = "post" /\ send' # send /\ ~PostRaises(send'.status))
        => /\ send'.posts = send.posts + 1
           /\ send'.posts <= SendAttempts
           /\ send'.status = "auth" =>
                  (send'.refreshes = send.refreshes + 1 /\ bothelp'.last.force)
           /\ send'.status = "success" => (send'.pc = "idle" /\ send'.result = "ok")
           /\ send'.result = "ok" => send'.status = "success"
           /\ (send'.status # "success" /\ send.attempt = SendAttempts)
                  => (send'.pc = "idle" /\ send'.result = "failed")]_vars

\* ------------------------------------------------------------------ cancellation
\* A delayed-send timer callback runs: its timer is no longer armed.
Fired(tm) == tm \in dtimers /\ tm \notin dtimers' /\ boots' = boots

C34_SubmitLoop ==
    [][\A t \in Threads :
          (smg[t].pc = "submit" /\ smg'[t].pc = "finally")
              => LET c == smg'[t]
                     registered == /\ nextTask \notin DOMAIN PENDING_TASKS
                                   /\ DOMAIN PENDING_TASKS' = DOMAIN PENDING_TASKS \cup {nextTask}
                                   /\ nextTask \in pollTimers' \ pollTimers
                 IN  /\ c.attempts \in 1..max_retries
                     /\ c.accepted # 0 => c.attempts = c.accepted
                     /\ c.accepted # 0 <=> registered
                     /\ c.accepted = 0 =>
                            UNCHANGED <<PENDING_TASKS, pollTimers>>]_vars

\* The same for the calls that send_waiting_music_msg returns to.
SubmitLoopWhenSent ==
    [][\A t \in Threads :
          (smg[t].pc = "submit" /\ smg'[t].pc = "finally"
              /\ smg'[t].error # "ok_then_raise")
              => LET c == smg'[t]
                     registered == /\ nextTask \notin DOMAIN PENDING_TASKS
                                   /\ DOMAIN PENDING_TASKS' = DOMAIN PENDING_TASKS \cup {nextTask}
                                   /\ nextTask \in pollTimers' \ pollTimers
                 IN  /\ c.attempts \in 1..max_retries
                     /\ c.accepted # 0 => c.attempts = c.accepted
                     /\ c.accepted # 0 <=> registered
                     /\ c.accepted = 0 =>
                            UNCHANGED <<PENDING_TASKS, pollTimers>>]_vars

\* ------------------------------------------------------------------ retry
\* C35: when every submit attempt of a call has failed, forced or not, a retry
\* timer is armed for the user, and the call that timer makes is not forced: if
\* a task of the user is registered or the guard is held when the timer fires,
\* the call does not get to the submission.
C35_RetryNotForced ==
    [][/\ \A t \in Threads :
              (smg[t].pc = "submit" /\ smg'[t].pc = "finally" /\ LoopFailed(smg'[t].error))
                  => smg[t].cuid \in retryTimers'
       /\ (lastPoll' # lastPoll /\ lastPoll'.outcome \in Restarts
              /\ nextTask' = nextTask /\ USER_STATE[PENDING_TASKS[lastPoll'.id].cuid].lyrics)
              => PENDING_TASKS[lastPoll'.id].cuid \in retryTimers'
       /\ \A t \in Threads, u \in retryTimers \ retryTimers' :
              (smg[t].pc = "idle" /\ HasPendingTask(PENDING_TASKS, u)) => smg'[t].pc = "idle"
       /\ \A t \in Threads :
              (smg[t].pc = "guard" /\ smg[t].busy) => smg'[t].pc \in {"guard", "idle"}]_vars

\* The same, with the guard taken as of the moment the call tests it.
RetryChecksGuard ==
    [][/\ \A t \in Threads :
              (smg[t].pc = "submit" /\ smg'[t].pc = "finally" /\ LoopFailed(smg'[t].error))
                  => smg[t].cuid \in retryTimers'
       /\ (lastPoll' # lastPoll /\ lastPoll'.outcome \in Restarts
              /\ nextTask' = nextTask /\ USER_STATE[PENDING_TASKS[lastPoll'.id].cuid].lyrics)
              => PENDING_TASKS[lastPoll'.id].cuid \in retryTimers'
       /\ \A t \in Threads, u \in retryTimers \ retryTimers' :
              (smg[t].pc = "idle" /\ HasPendingTask(PENDING_TASKS, u)) => smg'[t].pc = "idle"
       /\ \A t \in Threads :
              (smg[t].pc = "guard" /\ smg'[t].pc # "guard"
                  /\ smg[t].cuid \in CURRENTLY_GENERATING)
                  => smg'[t].pc = "idle"]_vars

ReturnsNoState(t) ==
    smg[t].pc = "idle" /\ smg'[t].pc # "idle" => USER_STATE'[smg'[t].cuid].exists

\* Nothing is submitted, registered or armed by a step of a call without lyrics.
NothingStarted == UNCHANGED <<PENDING_TASKS, pollTimers, retryTimers, nextTask>>

\* A call of thread t that reaches the guard test for a user without lyrics goes
\* on to the lyrics test, and returns no_lyrics from there with the guard set as
\* it found it.
ReturnsNoLyrics(t) ==
    /\ smg[t].pc = "guard" /\ smg'[t].pc # "guard" /\ ~USER_STATE[smg[t].cuid].lyrics
          => smg'[t].pc = "nolyrics" /\ NothingStarted
    /\ smg[t].pc = "nolyrics" /\ smg'[t].pc # "nolyrics"
          => /\ smg'[t].pc = "idle"
             /\ NothingStarted
             /\ smg[t].cuid \notin CURRENTLY_GENERATING'

C37_NoStateNoLyrics ==
    [][\A t \in Threads : ReturnsNoState(t) /\ ReturnsNoLyrics(t)]_vars

\* What holds of every such call: whichever notice it returns with, it starts
\* nothing.
NoLyricsStartsNothing ==
    [][\A t \in Threads :
          /\ ReturnsNoState(t)
          /\ smg[t].pc \in {"guard", "nolyrics"} /\ smg'[t].pc # smg[t].pc
               /\ ~USER_STATE[smg[t].cuid].lyrics
                => smg'[t].pc \in {"nolyrics", "idle"} /\ NothingStarted]_vars

\* ---------------------------------------------------------------------------
\* C38. An edit or generate event never causes an LLM call or stores lyrics for
\* a user who has never had a story accepted: the user is asked for a story and
\* the session holds no lyrics.

\* Only handle_new_story stores a story, so a session without one belongs to a
\* user none of whose stories was accepted.
NoStoryAccepted(st) == st.story = << >>

C38_NoStoryNoLLM ==
    [][(EventStep /\ lastEvent'.kind \in {"edit", "generate"}
                  /\ NoStoryAccepted(EventBefore))
        => /\ lastEvent'.pack_calls = 0
           /\ ~USER_STATE'[lastEvent'.cuid].lyrics]_vars

\* The generate half: the press of a user without an accepted story reaches no
\* LLM and stores no lyrics.
GenerateWithoutStory ==
    [][(EventStep /\ lastEvent'.kind \in {"no_story_yet", "generate"}
                  /\ NoStoryAccepted(EventBefore))
        => /\ lastEvent'.pack_calls = 0
           /\ USER_STATE'[lastEvent'.cuid].lyrics = EventBefore.lyrics]_vars

\* ---------------------------------------------------------------------------
\* C39. generate_song_pack tries the backends in a fixed order (Comet if enabled
\* and keyed, then OpenAI Responses, then OpenAI Chat Completions), stops at the
\* first backend that returns text, and returns ok = false with the error
\* all_llm_failed exactly when every backend it was allowed to try returned
\* nothing.

\* What the backend named b returns under configuration c.
BackendReturned(c, b) ==
    IF b = "comet" THEN CallCometChat(c.comet_key, c.comet)
    ELSE IF b = "responses" THEN CallModelResponses(c.openai_key, c.responses)
    ELSE CallModelChat(c.openai_key, c.chat)

\* The backends the configuration allows, in the fixed order.
Allowed(c) ==
    (IF c.use_comet_llm /\ CometKeyed(c.comet_key) THEN <<"comet">> ELSE << >>)
        \o (IF c.openai_key THEN <<"responses", "chat">> ELSE << >>)

C39_BackendOrder ==
    llm.done =>
        LET c == llm.cfg
            p == llm.pack
            n == Len(p.tried)
        IN  /\ n <= Len(Allowed(c))
            /\ p.tried = SubSeq(Allowed(c), 1, n)
            /\ \A i \in 1..n : i < n => BackendReturned(c, p.tried[i]) = None
            /\ p.ok => /\ n > 0
                       /\ BackendReturned(c, p.tried[n]) # None
                       /\ p.raw = BackendReturned(c, p.tried[n])
            /\ ~p.ok <=> (\A i \in 1..Len(Allowed(c)) : BackendReturned(c, Allowed(c)[i]) = None)
            /\ ~p.ok => p.error = "all_llm_failed" /\ n = Len(Allowed(c))

\* Comet is enabled and keyed and fails, Responses fails, and Chat Completions
\* returns the text.
C39_Witness ==
    /\ llm.done
    /\ llm.pack.ok
    /\ llm.pack.tried = <<"comet", "responses", "chat">>
    /\ llm.pack.used_model = "FALLBACK_MODEL"
    /\ llm.pack.raw = "chat text"

\* ---------------------------------------------------------------------------
\* C40. A reminder scheduled by _schedule_autoping_if_needed is never sent if the
\* user's last_activity_ts was updated after the reminder was scheduled; it is
\* sent only when no inbound event for that user arrived in between.
C40_ReminderOnlyWhenQuiet ==
    pings.last.sent => ~pings.last.events

\* What the timer does: it sends exactly when the session's last_activity_ts is
\* not later than the scheduling, so every request that came through
\* _process_incoming_payload in between suppresses it.
ReminderGatedByActivity ==
    /\ pings.last.sent => pings.last.activity <= pings.last.scheduled_at
    /\ pings.last.sent => ~pings.last.tracked

====
